---- MODULE Spec2Model ----
(***************************************************************************)
(* The teacher content controller of the school-management backend: the    *)
(* "smart caching" generators (generateDeck, generateActivity,             *)
(* generateLessonPlan, generateTopic) and the AI-assisted updates          *)
(* (updateDeckWithAI, updateLessonPlanWithAI, updateTopicWithAI), over the *)
(* tables they read and write.  Every handler is one action: the queries   *)
(* it awaits run in program order, and the query that throws (if any) and  *)
(* the answer of the AI service are inputs of the action.                  *)
(***************************************************************************)
EXTENDS Integers, Sequences, FiniteSets, TLC

VARIABLES
    AI_SERVICE_URL,     \* process.env.AI_SERVICE_URL, read once at module load
    decks,              \* table decks: a set of rows
    slides,             \* table slides: rows in insertion order
    topics,             \* table topics
    topic_items,        \* table topic_items: rows in insertion order
    lesson_plans,       \* table lesson_plans
    activities,         \* table activities
    analytics_events,   \* table analytics_events: rows in insertion order
    nextId,             \* the next primary key the database hands out
    clock,              \* the database's NOW(): the last timestamp it handed out
    last,               \* the request just handled and its response ("none": idle)
    aiChildren,         \* history: artifact id -> the children lists of the AI answers
                        \* the controller last set out to persist for it
    inflight,           \* the requests suspended at an await, by slot: used when
                        \* requests interleave, all slots idle otherwise
    NODE_ENV,           \* process.env.NODE_ENV
    users,              \* table users, by id
    issued,             \* history: the reset tokens handed out, each with its user and
                        \* what became of it
    attendance          \* table attendance

tables == <<decks, slides, topics, topic_items, lesson_plans, activities, analytics_events>>
db == <<tables, nextId, clock>>
\* the tables of the other controllers, which the teacher controller never writes
elsewhere == <<users, issued, attendance>>
config == <<AI_SERVICE_URL, NODE_ENV, elsewhere>>
env == <<config, inflight>>
vars == <<AI_SERVICE_URL, decks, slides, topics, topic_items, lesson_plans, activities,
          analytics_events, nextId, clock, last, aiChildren, inflight, NODE_ENV,
          users, issued, attendance>>

\* SQL NULL / a JavaScript null, undefined or unset environment variable
NULL == "NULL"

----------------------------------------------------------------------------
(* Bounds and input sets *)

\* the number of timestamped writes (artifact inserts, updated_at = NOW()) in a run
MaxClock == 2

\* the number of requests that can be suspended at an await at the same time
MaxInFlight == 2

Slots == 1..MaxInFlight

\* req.user as the authenticate middleware attaches it: one teacher without a
\* school and one teacher of school s1
Callers == { [id |-> "u1", school_id |-> NULL], [id |-> "u2", school_id |-> "s1"] }

\* how many of the validated fields of a request body are missing
Missing(flags) == Cardinality({i \in DOMAIN flags : flags[i]})

\* request bodies: at most one of the validated fields is missing ("" and <<>>
\* stand for an absent or empty field)
DeckBodies ==
    { b \in [topics : {<<>>, <<"Lens">>}, subject : {"", "Physics"}, gradeLevel : {"", "10"},
             chapter : {"", "Optics"}, forceRegenerate : BOOLEAN] :
        Missing(<<b.topics = <<>>, b.subject = "", b.gradeLevel = "">>) <= 1 }

ActivityBodies ==
    { b \in [topic : {"", "Lens"}, subject : {"", "Physics"}, duration : {30},
             activityType : {"quiz"}, gradeLevel : {"", "10"}, forceRegenerate : BOOLEAN] :
        Missing(<<b.topic = "", b.subject = "", b.gradeLevel = "">>) <= 1 }

LessonPlanBodies ==
    { b \in [topics : {<<>>, <<"Lens", "Mirror">>}, subject : {"", "Physics"},
             gradeLevel : {"", "10"}, totalDuration : {45}, forceRegenerate : BOOLEAN] :
        Missing(<<b.topics = <<>>, b.subject = "", b.gradeLevel = "">>) <= 1 }

TopicBodies ==
    { b \in [topic : {"", "Lens"}, subject : {"", "Physics"}, gradeLevel : {"", "10"},
             forceRegenerate : BOOLEAN] :
        Missing(<<b.topic = "", b.subject = "", b.gradeLevel = "">>) <= 1 }

\* the body and path id of an ai-update request
UpdateBodies == [id : 1..nextId, feedback : {"make it shorter"}]

\* what the AI service answers to generate-deck / modify-deck and to
\* generate-topic / modify-topic: aiResponse.data
DeckPayloads ==
    { [title |-> "A", slides |-> << [title |-> "a1", content |-> "x", order |-> 1],
                                    [title |-> "a2", content |-> "y", order |-> 2] >>],
      [title |-> "B", slides |-> << [title |-> "b1", content |-> "z", order |-> 1] >>] }

\* ... to generate-lesson-plan / modify-lesson-plan
LessonPlanPayloads ==
    { [title |-> t, objectives |-> <<"o", t>>, concepts |-> <<"c", t>>,
       sequence |-> <<"s", t>>, assessments |-> <<"a", t>>, resources |-> <<"r", t>>] :
      t \in {"P", "Q"} }

\* ... to generate-activity
ActivityPayloads ==
    { [title |-> "Quiz", materials |-> <<"pen">>, steps |-> <<"ask", "mark">>,
       learningOutcomes |-> <<"recall">>] }

\* the outcome of one axios.post: a 2xx answer with its data, or a rejection
\* (service unreachable, timeout, non-2xx status)
AIOutcomes(payloads) ==
    { [ok |-> TRUE, data |-> p] : p \in payloads } \cup
    { [ok |-> FALSE, data |-> CHOOSE p \in payloads : TRUE] }

\* the longest children list the AI service answers
MaxChildren ==
    CHOOSE n \in 0..Cardinality(DeckPayloads) * 4 :
        /\ \E p \in DeckPayloads : Len(p.slides) = n
        /\ \A p \in DeckPayloads : Len(p.slides) <= n

\* which awaited query of a handler with at most n queries throws: the k-th
\* one, 0 for none
FailPoints(n) == 0 .. n

----------------------------------------------------------------------------
(* The database *)

\* SQL "a = b": never true of a NULL
SqlEq(a, b) == a # NULL /\ b # NULL /\ a = b

\* a faulty ordering: ORDER BY created_at ASC LIMIT 1
EarliestFirstLimit1(rows) ==
    IF rows = {} THEN <<>>
    ELSE << CHOOSE r \in rows : \A o \in rows : r.created_at <= o.created_at >>

\* ORDER BY created_at DESC LIMIT 1 over the matching rows: result.rows
LatestFirstLimit1(rows) ==
    IF rows = {} THEN <<>>
    ELSE << CHOOSE r \in rows : \A o \in rows : o.created_at <= r.created_at >>

\* insert row r into a list sorted by column key (after the rows of equal key)
RECURSIVE InsertSorted(_, _, _)
InsertSorted(sorted, r, key) ==
    IF sorted = <<>> THEN <<r>>
    ELSE IF r[key] < Head(sorted)[key] THEN <<r>> \o sorted
    ELSE <<Head(sorted)>> \o InsertSorted(Tail(sorted), r, key)

\* ORDER BY key
RECURSIVE OrderBy(_, _)
OrderBy(rows, key) ==
    IF rows = <<>> THEN <<>>
    ELSE InsertSorted(OrderBy(SubSeq(rows, 1, Len(rows) - 1), key), rows[Len(rows)], key)

\* JSON.stringify of a value, as stored in a column
JSON_stringify(v) == <<"json", v>>

\* a faulty lookup: the chapter is compared with the subject column
SelectCachedDeckBySubject(userId, subject, gradeLevel, chapter) ==
    LatestFirstLimit1({d \in decks : /\ SqlEq(d.created_by, userId)
                                     /\ SqlEq(d.subject, subject)
                                     /\ SqlEq(d.grade_level, gradeLevel)
                                     /\ SqlEq(d.subject, chapter)})

\* SELECT * FROM decks WHERE created_by = $1 AND subject = $2 AND grade_level = $3
\*   AND source_chapter = $4 ORDER BY created_at DESC LIMIT 1
SelectCachedDeck(userId, subject, gradeLevel, chapter) ==
    LatestFirstLimit1({d \in decks : /\ SqlEq(d.created_by, userId)
                                     /\ SqlEq(d.subject, subject)
                                     /\ SqlEq(d.grade_level, gradeLevel)
                                     /\ SqlEq(d.source_chapter, chapter)})

\* SELECT * FROM activities WHERE created_by = $1 AND subject = $2
\*   AND activity_type = $3 AND source_topic = $4 ORDER BY created_at DESC LIMIT 1
SelectCachedActivity(userId, subject, activityType, topic) ==
    LatestFirstLimit1({a \in activities : /\ SqlEq(a.created_by, userId)
                                          /\ SqlEq(a.subject, subject)
                                          /\ SqlEq(a.activity_type, activityType)
                                          /\ SqlEq(a.source_topic, topic)})

\* SELECT * FROM lesson_plans WHERE created_by = $1 AND subject = $2
\*   AND grade_level = $3 AND source_topics = $4 ORDER BY created_at DESC LIMIT 1
\* (source_topics is TEXT[]: equal arrays have equal elements in equal positions)
SelectCachedLessonPlan(userId, subject, gradeLevel, topicsArray) ==
    LatestFirstLimit1({p \in lesson_plans : /\ SqlEq(p.created_by, userId)
                                            /\ SqlEq(p.subject, subject)
                                            /\ SqlEq(p.grade_level, gradeLevel)
                                            /\ SqlEq(p.source_topics, topicsArray)})

\* SELECT * FROM topics WHERE created_by = $1 AND subject = $2 AND grade_level = $3
\*   AND source_topic = $4 ORDER BY created_at DESC LIMIT 1
SelectCachedTopic(userId, subject, gradeLevel, topic) ==
    LatestFirstLimit1({t \in topics : /\ SqlEq(t.created_by, userId)
                                      /\ SqlEq(t.subject, subject)
                                      /\ SqlEq(t.grade_level, gradeLevel)
                                      /\ SqlEq(t.source_topic, topic)})

\* WHERE id = $1 AND (school_id = $2 OR (school_id IS NULL AND $2 IS NULL))
SelectInScope(table, id, schoolId) ==
    {r \in table : r.id = id /\ (SqlEq(r.school_id, schoolId)
                                 \/ (r.school_id = NULL /\ schoolId = NULL))}

\* SELECT * FROM lesson_plans WHERE id = $1 AND school_id = $2
SelectLessonPlanOfSchool(id, schoolId) ==
    {p \in lesson_plans : p.id = id /\ SqlEq(p.school_id, schoolId)}

\* a faulty select: no ORDER BY, the rows come in the order of their insertion
SelectSlidesUnordered(id) == SelectSeq(slides, LAMBDA s : s.deck_id = id)

\* SELECT * FROM slides WHERE deck_id = $1 ORDER BY slide_order
SelectSlides(id) ==
    OrderBy(SelectSeq(slides, LAMBDA s : s.deck_id = id), "slide_order")

\* SELECT * FROM topic_items WHERE topic_id = $1 ORDER BY item_order
SelectTopicItems(id) ==
    OrderBy(SelectSeq(topic_items, LAMBDA s : s.topic_id = id), "item_order")

\* a faulty insert: the rows that were in the table are dropped
InsertSlidesOnly(table, id, list, k) ==
    [i \in 1..k |-> [deck_id |-> id, title |-> list[i].title,
                     content |-> list[i].content, slide_order |-> list[i].order]]

\* the first k of the loop's
\*   INSERT INTO slides (deck_id, title, content, slide_order) VALUES ($1, $2, $3, $4)
InsertSlides(table, id, list, k) ==
    table \o [i \in 1..k |-> [deck_id |-> id, title |-> list[i].title,
                              content |-> list[i].content, slide_order |-> list[i].order]]

\* the first k of the loop's
\*   INSERT INTO topic_items (topic_id, title, content, item_order) VALUES (...)
InsertTopicItems(table, id, list, k) ==
    table \o [i \in 1..k |-> [topic_id |-> id, title |-> list[i].title,
                              content |-> list[i].content, item_order |-> list[i].order]]

\* a faulty delete: no row goes
DeleteNoSlides(table, id) == table

\* DELETE FROM slides WHERE deck_id = $1
DeleteSlides(table, id) == SelectSeq(table, LAMBDA s : s.deck_id # id)

\* DELETE FROM topic_items WHERE topic_id = $1
DeleteTopicItems(table, id) == SelectSeq(table, LAMBDA s : s.topic_id # id)

\* a faulty update: the subject is overwritten with the title
UpdateTitleAndSubject(table, id, newTitle, now) ==
    {IF r.id = id THEN [r EXCEPT !.title = newTitle, !.subject = newTitle, !.updated_at = now]
     ELSE r : r \in table}

\* UPDATE <table> SET title = $1, updated_at = NOW() WHERE id = $2
UpdateTitle(table, id, newTitle, now) ==
    {IF r.id = id THEN [r EXCEPT !.title = newTitle, !.updated_at = now] ELSE r : r \in table}

\* logEvent: INSERT INTO analytics_events (user_id, school_id, event_type, event_data);
\* when the query throws the error is swallowed
logEvent(userId, schoolId, eventType, throws) ==
    analytics_events' =
        IF throws THEN analytics_events
        ELSE Append(analytics_events,
                    [user_id |-> userId, school_id |-> schoolId, event_type |-> eventType])

\* the history of AI answers: the children list about to be persisted for id
Remember(id, list) ==
    aiChildren' = [i \in DOMAIN aiChildren \cup {id} |->
                      IF i # id THEN aiChildren[i]
                      ELSE IF id \in DOMAIN aiChildren THEN Append(aiChildren[id], list)
                      ELSE <<list>>]

----------------------------------------------------------------------------
(* Requests and responses *)

\* no axios.post was made
NoCall == [calls |-> 0, ok |-> FALSE, data |-> <<>>]

\* one axios.post was made and this was its outcome
Called(aiResponse) ==
    [calls |-> 1, ok |-> aiResponse.ok, data |-> IF aiResponse.ok THEN aiResponse.data ELSE <<>>]

\* the field names of the children of a response body
ChildFields(children) == UNION {DOMAIN children[i] : i \in 1..Len(children)}

\* what is kept of the response before this one
Summary(l) ==
    [op |-> l.op, user |-> l.user, body |-> l.body, status |-> l.status, id |-> l.id,
     calls |-> l.ai.calls, fields |-> ChildFields(l.slides)]

NoRequest ==
    [op |-> "none", user |-> [id |-> "", school_id |-> NULL], body |-> <<>>, status |-> 0,
     code |-> "", id |-> 0, slides |-> <<>>, ai |-> NoCall, lookups |-> 0, hit |-> FALSE,
     errorKeys |-> {},
     prev |-> [op |-> "none", user |-> [id |-> "", school_id |-> NULL], body |-> <<>>,
               status |-> 0, id |-> 0, calls |-> 0, fields |-> {}]]

\* errorHandler: res.status(status).json({ error: { message, code,
\*   ...(process.env.NODE_ENV === 'development' && { stack: err.stack }) } }):
\* the keys of the error object
errorHandler ==
    {"message", "code"} \cup (IF NODE_ENV = "development" THEN {"stack"} ELSE {})

\* the keys of the body of an error response: a validation failure is answered by
\* the handler itself with { errors: errors.array() }, every other error goes
\* through next(error) to errorHandler
ErrorBodyKeys(status, code) ==
    IF status < 400 THEN {}
    ELSE IF code = "VALIDATION" THEN {"errors"}
    ELSE errorHandler

\* a slot with no request in it
NoneInFlight ==
    [op |-> "none", user |-> [id |-> "", school_id |-> NULL], body |-> <<>>, pc |-> "idle",
     lk |-> 0, ai |-> NoCall]

\* the response: res.status(status).json(..), or next(error) through errorHandler.
\* id is the id of the artifact the body was built from and children the slides
\* of the body (0 and <<>> when there is none); ai is the axios.post the handler
\* made, lookups the number of cache SELECTs it ran, hit whether it answered
\* from the cache.
\* errorKeys are the keys of the body of an error response.
Reply(op, user, body, status, code, id, children, ai, lookups, hit) ==
    last' = [op |-> op, user |-> user, body |-> body, status |-> status, code |-> code,
             id |-> id, slides |-> children, ai |-> ai, lookups |-> lookups, hit |-> hit,
             errorKeys |-> ErrorBodyKeys(status, code),
             prev |-> Summary(last)]

\* errorHandler on the error of a rejected query: err.status is unset
DbError(op, user, body, ai, lookups) ==
    Reply(op, user, body, 500, "DB_ERROR", 0, <<>>, ai, lookups, FALSE)

\* axios.post(`${AI_SERVICE_URL}/...`): with the variable unset the request goes
\* to "undefined/..." and is rejected
axiosPost(ai) ==
    IF AI_SERVICE_URL = NULL THEN [ok |-> FALSE, data |-> ai.data] ELSE ai


\* a response that wrote nothing
NoWrite == UNCHANGED <<tables, nextId, clock, aiChildren>>

\* a faulty validation: the subject is not looked at
ValidDeckRequestWithoutSubject(body) ==
    /\ Len(body.topics) >= 1
    /\ body.gradeLevel # ""

\* validationResult(req).isEmpty() for router.post('/deck/generate'): topics
\* isArray({min: 1}), subject and gradeLevel notEmpty after trim, chapter optional
ValidDeckRequest(body) ==
    /\ Len(body.topics) >= 1
    /\ body.subject # ""
    /\ body.gradeLevel # ""

\* ... for router.post('/activity/generate')
ValidActivityRequest(body) ==
    /\ body.topic # ""
    /\ body.subject # ""
    /\ body.duration >= 5
    /\ body.activityType # ""
    /\ body.gradeLevel # ""

\* ... for router.post('/lesson-plan/generate')
ValidLessonPlanRequest(body) ==
    /\ Len(body.topics) >= 1
    /\ body.subject # ""
    /\ body.gradeLevel # ""
    /\ body.totalDuration >= 30

\* ... for router.post('/topic/generate')
ValidTopicRequest(body) ==
    /\ body.topic # ""
    /\ body.subject # ""
    /\ body.gradeLevel # ""

\* return res.status(400).json({ errors: errors.array() })
RejectInvalid(op, user, body) ==
    /\ Reply(op, user, body, 400, "VALIDATION", 0, <<>>, NoCall, 0, FALSE)
    /\ NoWrite

\* throw new AppError('AI service is not configured...', 500, 'AI_SERVICE_NOT_CONFIGURED')
NotConfigured(op, user, body, lk) ==
    /\ Reply(op, user, body, 500, "AI_SERVICE_NOT_CONFIGURED", 0, <<>>, NoCall, lk, FALSE)
    /\ NoWrite

\* catch (aiError): throw new AppError(.., 503, 'AI_SERVICE_ERROR')
ServiceUnavailable(op, user, body, aiResponse, lk) ==
    /\ Reply(op, user, body, 503, "AI_SERVICE_ERROR", 0, <<>>, Called(aiResponse), lk, FALSE)
    /\ NoWrite

\* a rejected axios.post outside any try: next(error) with the AxiosError, which
\* carries no status when the service gave no answer
AxiosErrorPassed(op, user, body, aiResponse, lk) ==
    /\ Reply(op, user, body, 500, "AXIOS_ERROR", 0, <<>>, Called(aiResponse), lk, FALSE)
    /\ NoWrite

----------------------------------------------------------------------------
(* generateDeck *)

\* a faulty condition: forceRegenerate is not looked at
UseDeckCacheWhenForced(body) == body.chapter # ""

\* a faulty condition: the chapter is not looked at
UseDeckCacheWithoutChapter(body) == ~body.forceRegenerate

\* if (!forceRegenerate && chapter)
UseDeckCache(body) == ~body.forceRegenerate /\ body.chapter # ""

\* a faulty cache hit: it also logs an analytics event
ReturnCachedDeckLogged(op, user, body, deck, dbFail) ==
    /\ Reply(op, user, body, 200, "OK", deck.id, SelectSlides(deck.id), NoCall, 1, TRUE)
    /\ logEvent(user.id, user.school_id, "teacher_generate_deck", FALSE)
    /\ UNCHANGED <<decks, slides, topics, topic_items, lesson_plans, activities, nextId,
                   clock, aiChildren>>

\* the cache hit: the slides are read and the existing deck is returned
ReturnCachedDeck(op, user, body, deck, dbFail) ==
    /\ IF dbFail = 2
       THEN DbError(op, user, body, NoCall, 1)
       ELSE Reply(op, user, body, 200, "OK", deck.id, SelectSlides(deck.id), NoCall, 1, TRUE)
    /\ NoWrite

\* the miss after the AI answered: query lk + 1 inserts the deck, lk + 1 + i the
\* i-th slide, lk + n + 2 the analytics event
SaveDeck(op, user, body, aiResponse, lk, dbFail) ==
    LET newSlides == aiResponse.data.slides
        n == Len(newSlides)
        deck == [id |-> nextId, title |-> aiResponse.data.title, subject |-> body.subject,
                 grade_level |-> body.gradeLevel, created_by |-> user.id,
                 school_id |-> user.school_id, source_topics |-> body.topics,
                 source_chapter |-> body.chapter,
                 created_at |-> clock + 1, updated_at |-> clock + 1]
        slideThrows == dbFail \in (lk + 2) .. (lk + n + 1)
        k == IF slideThrows THEN dbFail - lk - 2 ELSE n
    IN
    IF dbFail = lk + 1
    THEN DbError(op, user, body, Called(aiResponse), lk) /\ NoWrite
    ELSE /\ clock < MaxClock
         /\ decks' = decks \cup {deck}
         /\ slides' = InsertSlides(slides, deck.id, newSlides, k)
         /\ nextId' = nextId + 1
         /\ clock' = clock + 1
         /\ Remember(deck.id, newSlides)
         /\ IF slideThrows
            THEN /\ DbError(op, user, body, Called(aiResponse), lk)
                 /\ UNCHANGED analytics_events
            ELSE /\ logEvent(user.id, user.school_id, "teacher_generate_deck",
                             dbFail = lk + n + 2)
                 /\ Reply(op, user, body, 200, "OK", deck.id, newSlides,
                          Called(aiResponse), lk, FALSE)
         /\ UNCHANGED <<topics, topic_items, lesson_plans, activities>>

generateDeck(user, body, ai, dbFail) ==
    LET op == "generateDeck"
        existingDeck == SelectCachedDeck(user.id, body.subject, body.gradeLevel, body.chapter)
        lk == IF UseDeckCache(body) THEN 1 ELSE 0
        aiResponse == axiosPost(ai)
    IN
    /\ UNCHANGED env
    /\ IF ~ValidDeckRequest(body) THEN RejectInvalid(op, user, body)
       ELSE IF UseDeckCache(body) /\ dbFail = 1
       THEN DbError(op, user, body, NoCall, lk) /\ NoWrite
       ELSE IF UseDeckCache(body) /\ existingDeck # <<>>
       THEN ReturnCachedDeck(op, user, body, existingDeck[1], dbFail)
       ELSE IF AI_SERVICE_URL = NULL THEN NotConfigured(op, user, body, lk)
       ELSE IF ~aiResponse.ok THEN ServiceUnavailable(op, user, body, aiResponse, lk)
       ELSE SaveDeck(op, user, body, aiResponse, lk, dbFail)

----------------------------------------------------------------------------
(* generateActivity *)

\* if (!forceRegenerate)
UseCache(body) == ~body.forceRegenerate

\* the cache hit: the stored activity is formatted and returned
ReturnCachedActivity(op, user, body, dbActivity) ==
    /\ Reply(op, user, body, 200, "OK", dbActivity.id, <<>>, NoCall, 1, TRUE)
    /\ NoWrite

\* the miss after the AI answered: query lk + 1 inserts the activity, lk + 2 the
\* analytics event
SaveActivity(op, user, body, aiResponse, lk, dbFail) ==
    LET activity == aiResponse.data
        dbActivity == [id |-> nextId, title |-> activity.title, subject |-> body.subject,
                       activity_type |-> body.activityType, duration |-> body.duration,
                       materials |-> JSON_stringify(activity.materials),
                       steps |-> JSON_stringify(activity.steps),
                       learning_outcomes |-> JSON_stringify(activity.learningOutcomes),
                       created_by |-> user.id, school_id |-> user.school_id,
                       source_topic |-> body.topic,
                       created_at |-> clock + 1, updated_at |-> clock + 1]
    IN
    IF dbFail = lk + 1
    THEN DbError(op, user, body, Called(aiResponse), lk) /\ NoWrite
    ELSE /\ clock < MaxClock
         /\ activities' = activities \cup {dbActivity}
         /\ nextId' = nextId + 1
         /\ clock' = clock + 1
         /\ logEvent(user.id, user.school_id, "teacher_generate_activity", dbFail = lk + 2)
         /\ Reply(op, user, body, 200, "OK", dbActivity.id, <<>>, Called(aiResponse), lk, FALSE)
         /\ UNCHANGED <<decks, slides, topics, topic_items, lesson_plans, aiChildren>>

generateActivity(user, body, ai, dbFail) ==
    LET op == "generateActivity"
        existingActivity ==
            SelectCachedActivity(user.id, body.subject, body.activityType, body.topic)
        lk == IF UseCache(body) THEN 1 ELSE 0
        aiResponse == axiosPost(ai)
    IN
    /\ UNCHANGED env
    /\ IF ~ValidActivityRequest(body) THEN RejectInvalid(op, user, body)
       ELSE IF UseCache(body) /\ dbFail = 1
       THEN DbError(op, user, body, NoCall, lk) /\ NoWrite
       ELSE IF UseCache(body) /\ existingActivity # <<>>
       THEN ReturnCachedActivity(op, user, body, existingActivity[1])
       ELSE IF AI_SERVICE_URL = NULL THEN NotConfigured(op, user, body, lk)
       ELSE IF ~aiResponse.ok THEN ServiceUnavailable(op, user, body, aiResponse, lk)
       ELSE SaveActivity(op, user, body, aiResponse, lk, dbFail)

----------------------------------------------------------------------------
(* generateLessonPlan *)

\* the cache hit: return res.json(existingPlan.rows[0])
ReturnCachedLessonPlan(op, user, body, plan) ==
    /\ Reply(op, user, body, 200, "OK", plan.id, <<>>, NoCall, 1, TRUE)
    /\ NoWrite

\* the miss after the AI answered: query lk + 1 inserts the plan, lk + 2 the
\* analytics event
SaveLessonPlan(op, user, body, aiResponse, lk, dbFail) ==
    LET lessonPlan == aiResponse.data
        row == [id |-> nextId, title |-> lessonPlan.title, subject |-> body.subject,
                grade_level |-> body.gradeLevel, duration |-> body.totalDuration,
                objectives |-> JSON_stringify(lessonPlan.objectives),
                concepts |-> JSON_stringify(lessonPlan.concepts),
                sequence |-> JSON_stringify(lessonPlan.sequence),
                assessments |-> JSON_stringify(lessonPlan.assessments),
                resources |-> JSON_stringify(lessonPlan.resources),
                created_by |-> user.id, school_id |-> user.school_id,
                source_topics |-> body.topics,
                created_at |-> clock + 1, updated_at |-> clock + 1]
    IN
    IF dbFail = lk + 1
    THEN DbError(op, user, body, Called(aiResponse), lk) /\ NoWrite
    ELSE /\ clock < MaxClock
         /\ lesson_plans' = lesson_plans \cup {row}
         /\ nextId' = nextId + 1
         /\ clock' = clock + 1
         /\ logEvent(user.id, user.school_id, "teacher_generate_lesson_plan", dbFail = lk + 2)
         /\ Reply(op, user, body, 200, "OK", row.id, <<>>, Called(aiResponse), lk, FALSE)
         /\ UNCHANGED <<decks, slides, topics, topic_items, activities, aiChildren>>

generateLessonPlan(user, body, ai, dbFail) ==
    LET op == "generateLessonPlan"
        topicsArray == body.topics
        existingPlan ==
            SelectCachedLessonPlan(user.id, body.subject, body.gradeLevel, topicsArray)
        lk == IF UseCache(body) THEN 1 ELSE 0
        aiResponse == axiosPost(ai)
    IN
    /\ UNCHANGED env
    /\ IF ~ValidLessonPlanRequest(body) THEN RejectInvalid(op, user, body)
       ELSE IF UseCache(body) /\ dbFail = 1
       THEN DbError(op, user, body, NoCall, lk) /\ NoWrite
       ELSE IF UseCache(body) /\ existingPlan # <<>>
       THEN ReturnCachedLessonPlan(op, user, body, existingPlan[1])
       ELSE IF AI_SERVICE_URL = NULL THEN NotConfigured(op, user, body, lk)
       ELSE IF ~aiResponse.ok THEN ServiceUnavailable(op, user, body, aiResponse, lk)
       ELSE SaveLessonPlan(op, user, body, aiResponse, lk, dbFail)

----------------------------------------------------------------------------
(* generateTopic *)

\* the cache hit: the items are read and the existing topic is returned
ReturnCachedTopic(op, user, body, topicData, dbFail) ==
    /\ IF dbFail = 2
       THEN DbError(op, user, body, NoCall, 1)
       ELSE Reply(op, user, body, 200, "OK", topicData.id, SelectTopicItems(topicData.id),
                  NoCall, 1, TRUE)
    /\ NoWrite

\* the miss after the AI answered: query lk + 1 inserts the topic, lk + 1 + i the
\* i-th item, lk + n + 2 the analytics event
SaveTopic(op, user, body, aiResponse, lk, dbFail) ==
    LET newSlides == aiResponse.data.slides
        n == Len(newSlides)
        topicData == [id |-> nextId, title |-> aiResponse.data.title,
                      subject |-> body.subject, grade_level |-> body.gradeLevel,
                      created_by |-> user.id, school_id |-> user.school_id,
                      source_topic |-> body.topic,
                      created_at |-> clock + 1, updated_at |-> clock + 1]
        slideThrows == dbFail \in (lk + 2) .. (lk + n + 1)
        k == IF slideThrows THEN dbFail - lk - 2 ELSE n
    IN
    IF dbFail = lk + 1
    THEN DbError(op, user, body, Called(aiResponse), lk) /\ NoWrite
    ELSE /\ clock < MaxClock
         /\ topics' = topics \cup {topicData}
         /\ topic_items' = InsertTopicItems(topic_items, topicData.id, newSlides, k)
         /\ nextId' = nextId + 1
         /\ clock' = clock + 1
         /\ Remember(topicData.id, newSlides)
         /\ IF slideThrows
            THEN /\ DbError(op, user, body, Called(aiResponse), lk)
                 /\ UNCHANGED analytics_events
            ELSE /\ logEvent(user.id, user.school_id, "teacher_generate_topic",
                             dbFail = lk + n + 2)
                 /\ Reply(op, user, body, 200, "OK", topicData.id, newSlides,
                          Called(aiResponse), lk, FALSE)
         /\ UNCHANGED <<decks, slides, lesson_plans, activities>>

generateTopic(user, body, ai, dbFail) ==
    LET op == "generateTopic"
        existingTopic == SelectCachedTopic(user.id, body.subject, body.gradeLevel, body.topic)
        lk == IF UseCache(body) THEN 1 ELSE 0
        aiResponse == axiosPost(ai)
    IN
    /\ UNCHANGED env
    /\ IF ~ValidTopicRequest(body) THEN RejectInvalid(op, user, body)
       ELSE IF UseCache(body) /\ dbFail = 1
       THEN DbError(op, user, body, NoCall, lk) /\ NoWrite
       ELSE IF UseCache(body) /\ existingTopic # <<>>
       THEN ReturnCachedTopic(op, user, body, existingTopic[1], dbFail)
       ELSE IF ~aiResponse.ok THEN AxiosErrorPassed(op, user, body, aiResponse, lk)
       ELSE SaveTopic(op, user, body, aiResponse, lk, dbFail)

----------------------------------------------------------------------------
(* updateDeckWithAI, updateTopicWithAI, updateLessonPlanWithAI *)

\* throw new AppError('... not found', 404, code)
NotFound(op, user, body, code) ==
    /\ Reply(op, user, body, 404, code, 0, <<>>, NoCall, 0, FALSE)
    /\ NoWrite

\* a faulty failure path: the old slides are deleted before the error is thrown
ModifyFailedAfterDelete(op, user, body, aiResponse) ==
    /\ Reply(op, user, body, 500, "AI_SERVICE_ERROR", 0, <<>>, Called(aiResponse), 0, FALSE)
    /\ slides' = DeleteSlides(slides, body.id)
    /\ UNCHANGED <<decks, topics, topic_items, lesson_plans, activities, analytics_events,
                   nextId, clock, aiChildren>>

\* catch (aiError): throw new AppError(.. || 'AI service failed to modify ...', 500,
\* 'AI_SERVICE_ERROR')
ModifyFailed(op, user, body, aiResponse) ==
    /\ Reply(op, user, body, 500, "AI_SERVICE_ERROR", 0, <<>>, Called(aiResponse), 0, FALSE)
    /\ NoWrite

\* "4. Overwrite in DB": query 3 updates the title, query 4 deletes the old slides,
\* query 4 + i inserts the i-th new slide
OverwriteDeck(op, user, body, aiResponse, dbFail) ==
    LET id == body.id
        newTitle == aiResponse.data.title
        newSlides == aiResponse.data.slides
        n == Len(newSlides)
        slideThrows == dbFail \in 5 .. (4 + n)
        k == IF slideThrows THEN dbFail - 5 ELSE n
    IN
    IF dbFail = 3
    THEN DbError(op, user, body, Called(aiResponse), 0) /\ NoWrite
    ELSE /\ clock < MaxClock
         /\ clock' = clock + 1
         /\ decks' = UpdateTitle(decks, id, newTitle, clock + 1)
         /\ Remember(id, newSlides)
         /\ IF dbFail = 4
            THEN /\ DbError(op, user, body, Called(aiResponse), 0)
                 /\ UNCHANGED slides
            ELSE /\ slides' = InsertSlides(DeleteSlides(slides, id), id, newSlides, k)
                 /\ IF slideThrows
                    THEN DbError(op, user, body, Called(aiResponse), 0)
                    ELSE Reply(op, user, body, 200, "OK", 0, <<>>, Called(aiResponse), 0, FALSE)
         /\ UNCHANGED <<topics, topic_items, lesson_plans, activities, analytics_events,
                        nextId>>

updateDeckWithAI(user, body, ai, dbFail) ==
    LET op == "updateDeckWithAI"
        deckResult == SelectInScope(decks, body.id, user.school_id)
        aiResponse == axiosPost(ai)
    IN
    /\ UNCHANGED env
    /\ IF dbFail = 1 THEN DbError(op, user, body, NoCall, 0) /\ NoWrite
       ELSE IF deckResult = {} THEN NotFound(op, user, body, "DECK_NOT_FOUND")
       ELSE IF dbFail = 2 THEN DbError(op, user, body, NoCall, 0) /\ NoWrite
       ELSE IF ~aiResponse.ok THEN ModifyFailed(op, user, body, aiResponse)
       ELSE OverwriteDeck(op, user, body, aiResponse, dbFail)

\* "4. Overwrite in DB": query 3 updates the title, query 4 deletes the old items,
\* query 4 + i inserts the i-th new item
OverwriteTopic(op, user, body, aiResponse, dbFail) ==
    LET id == body.id
        newTitle == aiResponse.data.title
        newSlides == aiResponse.data.slides
        n == Len(newSlides)
        slideThrows == dbFail \in 5 .. (4 + n)
        k == IF slideThrows THEN dbFail - 5 ELSE n
    IN
    IF dbFail = 3
    THEN DbError(op, user, body, Called(aiResponse), 0) /\ NoWrite
    ELSE /\ clock < MaxClock
         /\ clock' = clock + 1
         /\ topics' = UpdateTitle(topics, id, newTitle, clock + 1)
         /\ Remember(id, newSlides)
         /\ IF dbFail = 4
            THEN /\ DbError(op, user, body, Called(aiResponse), 0)
                 /\ UNCHANGED topic_items
            ELSE /\ topic_items' =
                        InsertTopicItems(DeleteTopicItems(topic_items, id), id, newSlides, k)
                 /\ IF slideThrows
                    THEN DbError(op, user, body, Called(aiResponse), 0)
                    ELSE Reply(op, user, body, 200, "OK", 0, <<>>, Called(aiResponse), 0, FALSE)
         /\ UNCHANGED <<decks, slides, lesson_plans, activities, analytics_events, nextId>>

updateTopicWithAI(user, body, ai, dbFail) ==
    LET op == "updateTopicWithAI"
        topicResult == SelectInScope(topics, body.id, user.school_id)
        aiResponse == axiosPost(ai)
    IN
    /\ UNCHANGED env
    /\ IF dbFail = 1 THEN DbError(op, user, body, NoCall, 0) /\ NoWrite
       ELSE IF topicResult = {} THEN NotFound(op, user, body, "TOPIC_NOT_FOUND")
       ELSE IF dbFail = 2 THEN DbError(op, user, body, NoCall, 0) /\ NoWrite
       ELSE IF ~aiResponse.ok THEN ModifyFailed(op, user, body, aiResponse)
       ELSE OverwriteTopic(op, user, body, aiResponse, dbFail)

\* "3. Overwrite in DB": UPDATE lesson_plans SET title=$1, objectives=$2, concepts=$3,
\* sequence=$4, assessments=$5, resources=$6, updated_at=NOW() WHERE id=$7 RETURNING *
OverwriteLessonPlan(op, user, body, aiResponse, dbFail) ==
    LET id == body.id
        newPlan == aiResponse.data
        Overwritten(p) == [p EXCEPT !.title = newPlan.title,
                                    !.objectives = JSON_stringify(newPlan.objectives),
                                    !.concepts = JSON_stringify(newPlan.concepts),
                                    !.sequence = JSON_stringify(newPlan.sequence),
                                    !.assessments = JSON_stringify(newPlan.assessments),
                                    !.resources = JSON_stringify(newPlan.resources),
                                    !.updated_at = clock + 1]
    IN
    IF dbFail = 2
    THEN DbError(op, user, body, Called(aiResponse), 0) /\ NoWrite
    ELSE /\ clock < MaxClock
         /\ clock' = clock + 1
         /\ lesson_plans' = {IF p.id = id THEN Overwritten(p) ELSE p : p \in lesson_plans}
         /\ Reply(op, user, body, 200, "OK", id, <<>>, Called(aiResponse), 0, FALSE)
         /\ UNCHANGED <<decks, slides, topics, topic_items, activities, analytics_events,
                        nextId, aiChildren>>

updateLessonPlanWithAI(user, body, ai, dbFail) ==
    LET op == "updateLessonPlanWithAI"
        lpResult == SelectLessonPlanOfSchool(body.id, user.school_id)
        aiResponse == axiosPost(ai)
    IN
    /\ UNCHANGED env
    /\ IF dbFail = 1 THEN DbError(op, user, body, NoCall, 0) /\ NoWrite
       ELSE IF lpResult = {} THEN NotFound(op, user, body, "LESSON_PLAN_NOT_FOUND")
       ELSE IF ~aiResponse.ok THEN AxiosErrorPassed(op, user, body, aiResponse, 0)
       ELSE OverwriteLessonPlan(op, user, body, aiResponse, dbFail)

----------------------------------------------------------------------------
(* The clients *)

\* the requests a handler may get next: when the server is idle, any request of
\* any caller; right after a generation was answered with 200, the same request
\* again
Requests(op, bodies) ==
    IF last.op = "none" THEN Callers \X bodies
    ELSE IF last.op = op /\ last.status = 200 THEN {<<last.user, last.body>>}
    ELSE {}

\* an update request arrives when the server is idle
UpdateRequests ==
    IF last.op = "none" THEN Callers \X UpdateBodies ELSE {}

\* the response has been sent and the server is idle again
Idle ==
    /\ last.op # "none"
    /\ last' = NoRequest
    /\ UNCHANGED <<env, tables, nextId, clock, aiChildren>>

\* the accounts of the school: two teachers, one of them the class teacher of
\* 10 A, and two students
Accounts ==
    { [id |-> "u1", email |-> "u1@school", role |-> "teacher",
       class_teacher_of |-> "10", assigned_section |-> "A"],
      [id |-> "u2", email |-> "u2@school", role |-> "teacher",
       class_teacher_of |-> NULL, assigned_section |-> NULL],
      [id |-> "p1", email |-> "p1@school", role |-> "student",
       class_teacher_of |-> NULL, assigned_section |-> NULL],
      [id |-> "p2", email |-> "p2@school", role |-> "student",
       class_teacher_of |-> NULL, assigned_section |-> NULL] }

\* the row of users of an account that never asked for a password reset; a
\* TIMESTAMP column holds <<>> for NULL and <<t>> for the time t
Registered(a) ==
    [id |-> a.id, email |-> a.email, role |-> a.role,
     class_teacher_of |-> a.class_teacher_of, assigned_section |-> a.assigned_section,
     password |-> <<"bcrypt", "initial">>, reset_token |-> NULL,
     reset_token_expires |-> <<>>]

\* the server has started: the accounts exist, the other tables are empty and no
\* request was received
Started ==
    /\ AI_SERVICE_URL \in {NULL, "http://ai:8000"}
    /\ decks = {}
    /\ slides = <<>>
    /\ topics = {}
    /\ topic_items = <<>>
    /\ lesson_plans = {}
    /\ activities = {}
    /\ analytics_events = <<>>
    /\ nextId = 1
    /\ clock = 0
    /\ last = NoRequest
    /\ aiChildren = <<>>
    /\ inflight = [s \in Slots |-> NoneInFlight]
    /\ users = [id \in {a.id : a \in Accounts} |->
                   Registered(CHOOSE a \in Accounts : a.id = id)]
    /\ issued = <<>>
    /\ attendance = {}

Init == Started /\ NODE_ENV = "production"

Next ==
    \/ \E r \in Requests("generateDeck", DeckBodies),
          ai \in AIOutcomes(DeckPayloads), dbFail \in FailPoints(MaxChildren + 3) :
            generateDeck(r[1], r[2], ai, dbFail)
    \/ \E r \in Requests("generateActivity", ActivityBodies),
          ai \in AIOutcomes(ActivityPayloads), dbFail \in FailPoints(3) :
            generateActivity(r[1], r[2], ai, dbFail)
    \/ \E r \in Requests("generateLessonPlan", LessonPlanBodies),
          ai \in AIOutcomes(LessonPlanPayloads), dbFail \in FailPoints(3) :
            generateLessonPlan(r[1], r[2], ai, dbFail)
    \/ \E r \in Requests("generateTopic", TopicBodies),
          ai \in AIOutcomes(DeckPayloads), dbFail \in FailPoints(MaxChildren + 3) :
            generateTopic(r[1], r[2], ai, dbFail)
    \/ \E r \in UpdateRequests, ai \in AIOutcomes(DeckPayloads),
          dbFail \in FailPoints(MaxChildren + 4) :
            updateDeckWithAI(r[1], r[2], ai, dbFail)
    \/ \E r \in UpdateRequests, ai \in AIOutcomes(DeckPayloads),
          dbFail \in FailPoints(MaxChildren + 4) :
            updateTopicWithAI(r[1], r[2], ai, dbFail)
    \/ \E r \in UpdateRequests, ai \in AIOutcomes(LessonPlanPayloads),
          dbFail \in FailPoints(2) :
            updateLessonPlanWithAI(r[1], r[2], ai, dbFail)
    \/ Idle

Spec == Init /\ [][Next]_vars

----------------------------------------------------------------------------
(* Properties: getOrGenerate *)

GenOps == {"generateDeck", "generateActivity", "generateLessonPlan", "generateTopic"}

UpdateOps == {"updateDeckWithAI", "updateTopicWithAI", "updateLessonPlanWithAI"}

\* the ids of all persisted artifacts
ArtifactIds ==
    {r.id : r \in decks} \cup {r.id : r \in topics} \cup {r.id : r \in lesson_plans}
        \cup {r.id : r \in activities}

\* the response in last answers the same non-forced generation request as the
\* response before it, and both succeeded
SameRequestTwice ==
    /\ last.op \in GenOps
    /\ last.prev.op = last.op
    /\ last.prev.user = last.user
    /\ last.prev.body = last.body
    /\ ~last.body.forceRegenerate
    /\ last.status = 200
    /\ last.prev.status = 200

\* the second call returned the artifact of the first, with at most one
\* external call across the two
SameArtifactOneCall ==
    /\ last.id = last.prev.id
    /\ last.ai.calls + last.prev.calls <= 1

\* C1 as stated: for every content type, two successive successful calls with
\* forceRegenerate = false and unchanged inputs return the same artifact id and
\* invoke the external service at most once across the two calls.
IdempotentCacheHit == SameRequestTwice => SameArtifactOneCall

\* C1, amended: the same, for activities, lesson plans and topics, and for
\* decks when the request carries a chapter.
IdempotentCacheHitWithKey ==
    (SameRequestTwice /\ (last.op = "generateDeck" => last.body.chapter # ""))
        => SameArtifactOneCall

\* a deck request with a chapter was answered twice: first generated by one
\* external call, then served from the cache
IdempotentCacheHitReached ==
    /\ SameRequestTwice
    /\ last.op = "generateDeck"
    /\ last.body.chapter # ""
    /\ last.prev.calls = 1
    /\ last.hit

\* C2: a successful call with forceRegenerate = true made one external call,
\* ran no cache lookup, and persisted a new artifact whose id is the id of no
\* artifact that existed before the call.
ForcedBypass ==
    [][ (last'.op \in GenOps /\ last'.body.forceRegenerate /\ last'.status = 200)
          => /\ last'.ai.calls = 1
             /\ last'.ai.ok
             /\ last'.lookups = 0
             /\ ~last'.hit
             /\ last'.id \notin ArtifactIds
             /\ last'.id \in ArtifactIds' ]_vars

\* a forced deck request succeeded while an older deck with its cache key exists
ForcedBypassReached ==
    /\ last.op = "generateDeck"
    /\ last.body.forceRegenerate
    /\ last.status = 200
    /\ \E d \in decks : /\ d.id # last.id
                        /\ d.created_by = last.user.id
                        /\ d.subject = last.body.subject
                        /\ d.grade_level = last.body.gradeLevel
                        /\ d.source_chapter = last.body.chapter
                        /\ d.source_chapter # ""

\* C3: a call answered from the cache made no external call and wrote to no
\* table; no row was created.
CacheHitWritesNothing ==
    [][ last'.hit => /\ last'.op \in GenOps
                     /\ last'.ai.calls = 0
                     /\ tables' = tables
                     /\ nextId' = nextId ]_vars

\* an activity request was answered from the cache
CacheHitReached ==
    /\ last.hit
    /\ last.op = "generateActivity"
    /\ last.status = 200
    /\ \E a \in activities : a.id = last.id

\* the request names no topic: neither topics nor chapter for a deck, no topics
\* for a lesson plan, no topic for an activity or a topic
NoTopicIdentifier(op, body) ==
    CASE op = "generateDeck" -> body.topics = <<>> /\ body.chapter = ""
      [] op = "generateLessonPlan" -> body.topics = <<>>
      [] OTHER -> body.topic = ""

\* C4: a generation request missing subject, gradeLevel or all topic
\* identifiers is answered 400 with no cache lookup, no external call and the
\* database as it was.
ValidationPrecedesSideEffects ==
    [][ (/\ last'.op \in GenOps
         /\ \/ last'.body.subject = ""
            \/ last'.body.gradeLevel = ""
            \/ NoTopicIdentifier(last'.op, last'.body))
          => /\ last'.status = 400
             /\ last'.lookups = 0
             /\ last'.ai.calls = 0
             /\ db' = db ]_vars

\* a forced deck request without subject was rejected while the database holds
\* artifacts
ValidationRejectReached ==
    /\ last.op = "generateDeck"
    /\ last.body.subject = ""
    /\ last.body.forceRegenerate
    /\ last.status = 400
    /\ decks # {}

----------------------------------------------------------------------------
(* Properties: updateWithFeedback *)

\* the children of a response or of the service's answer as (title, content, order)
ChildrenOfSlides(rows) ==
    [i \in 1..Len(rows) |-> [title |-> rows[i].title, content |-> rows[i].content,
                             order |-> rows[i].slide_order]]

ChildrenOfItems(rows) ==
    [i \in 1..Len(rows) |-> [title |-> rows[i].title, content |-> rows[i].content,
                             order |-> rows[i].item_order]]

FailedUpdateMutatesNothing ==
    [][ (last'.op \in UpdateOps /\ last'.ai.calls = 1 /\ ~last'.ai.ok)
          => /\ last'.status >= 400
             /\ tables' = tables ]_vars

\* the external call of an update of a deck with slides failed
FailedUpdateReached ==
    /\ last.op = "updateDeckWithAI"
    /\ last.ai.calls = 1
    /\ ~last.ai.ok
    /\ last.status = 500
    /\ SelectSlides(last.body.id) # <<>>

\* the table an update reads its artifact from
TableOf(op) ==
    CASE op = "updateDeckWithAI" -> decks
      [] op = "updateTopicWithAI" -> topics
      [] OTHER -> lesson_plans

\* the artifact of the update exists and its scope is the caller's (both may be null)
InCallerScope(l) ==
    \E r \in TableOf(l.op) : r.id = l.body.id /\ r.school_id = l.user.school_id

\* C7: an update of an artifact that does not exist or is of another scope is
\* answered 404 with no external call and no mutation, and an update of an
\* artifact of the caller's scope (both null included) is not answered 404, for
\* decks, topics and lesson plans.
ScopedUpdate ==
    [][ last'.op \in UpdateOps
          => /\ (~InCallerScope(last') /\ last'.code # "DB_ERROR")
                   => /\ last'.status = 404
                      /\ last'.ai.calls = 0
                      /\ tables' = tables
             /\ InCallerScope(last') => last'.status # 404 ]_vars

----------------------------------------------------------------------------
(* Properties: errors of getOrGenerate *)

\* C8: for every content type, a generation request whose external call fails
\* is answered 503 ExternalServiceUnavailable after one call, with nothing
\* written.
GenerationFailureIsUnavailable ==
    [][ (/\ last'.op \in GenOps
         /\ AI_SERVICE_URL # NULL
         /\ last'.ai.calls >= 1
         /\ ~last'.ai.ok)
          => /\ last'.status = 503
             /\ last'.code = "AI_SERVICE_ERROR"
             /\ last'.ai.calls = 1
             /\ tables' = tables ]_vars

\* C9: with the service location unset, every valid generation request that
\* needs the service (a miss or a forced one), for every content type, is
\* answered with the NotConfigured error, with no call attempted and nothing
\* written.
UnsetLocationIsNotConfigured ==
    [][ (/\ last'.op \in GenOps
         /\ AI_SERVICE_URL = NULL
         /\ last'.status # 400
         /\ last'.code # "DB_ERROR"
         /\ ~last'.hit)
          => /\ last'.code = "AI_SERVICE_NOT_CONFIGURED"
             /\ last'.ai.calls = 0
             /\ tables' = tables ]_vars

\* C10: every successful response for a deck or a topic carries the complete
\* children list the service last returned for that artifact.
NoPartialSuccess ==
    /\ (last.op = "generateDeck" /\ last.status = 200)
          => /\ last.id \in DOMAIN aiChildren
             /\ (IF last.hit THEN ChildrenOfSlides(last.slides) ELSE last.slides)
                   = aiChildren[last.id][Len(aiChildren[last.id])]
    /\ (last.op = "generateTopic" /\ last.status = 200)
          => /\ last.id \in DOMAIN aiChildren
             /\ (IF last.hit THEN ChildrenOfItems(last.slides) ELSE last.slides)
                   = aiChildren[last.id][Len(aiChildren[last.id])]

----------------------------------------------------------------------------
(* Properties: the cache lookup and the response *)

\* C11: for the same deck or topic, the children in the response of the
\* generating call and in the response of the cache hit that follows it have
\* the same field names.
SameShapeOnHitAndMiss ==
    (/\ last.op \in {"generateDeck", "generateTopic"}
     /\ last.prev.op = last.op
     /\ last.status = 200
     /\ last.prev.status = 200
     /\ last.id = last.prev.id
     /\ last.hit
     /\ last.prev.calls = 1
     /\ last.slides # <<>>)
        => ChildFields(last.slides) = last.prev.fields

\* the table a generator keeps its artifacts in
GenTable(op) ==
    CASE op = "generateDeck" -> decks
      [] op = "generateTopic" -> topics
      [] op = "generateLessonPlan" -> lesson_plans
      [] OTHER -> activities

\* row r has the cache key of the request: requester, subject, gradeLevel
\* (where the table has the column) and the topic-identifying field of the
\* content type
CacheKeyMatch(op, r, user, body) ==
    /\ r.created_by = user.id
    /\ r.subject = body.subject
    /\ CASE op = "generateDeck" ->
              r.grade_level = body.gradeLevel /\ r.source_chapter = body.chapter
         [] op = "generateTopic" ->
              r.grade_level = body.gradeLevel /\ r.source_topic = body.topic
         [] op = "generateLessonPlan" ->
              r.grade_level = body.gradeLevel /\ r.source_topics = body.topics
         [] OTHER -> r.source_topic = body.topic

\* C12: the artifact a cache hit returns is the most recently created of the
\* artifacts that match the request's cache key.
LatestMatchWins ==
    (last.op \in GenOps /\ last.hit)
        => \E r \in GenTable(last.op) :
              /\ r.id = last.id
              /\ \A o \in GenTable(last.op) :
                    CacheKeyMatch(last.op, o, last.user, last.body)
                        => o.created_at <= r.created_at

\* a non-forced deck request was answered with the newer of two decks of its key
LatestMatchWinsReached ==
    /\ last.op = "generateDeck"
    /\ last.hit
    /\ \E a \in decks, b \in decks :
          /\ CacheKeyMatch(last.op, a, last.user, last.body)
          /\ CacheKeyMatch(last.op, b, last.user, last.body)
          /\ a.created_at < b.created_at
          /\ b.id = last.id

\* every row of list old is a row of list new, at the same place
IsPrefix(old, new) ==
    /\ Len(old) <= Len(new)
    /\ SubSeq(new, 1, Len(old)) = old

\* C13: a generation request, whatever its outcome, leaves every artifact row
\* and every child row that existed before it as it was: rows are only added.
CreationIsAppendOnly ==
    [][ last'.op \in GenOps
          => /\ decks \subseteq decks'
             /\ topics \subseteq topics'
             /\ lesson_plans \subseteq lesson_plans'
             /\ activities \subseteq activities'
             /\ IsPrefix(slides, slides')
             /\ IsPrefix(topic_items, topic_items') ]_vars

\* a deck was generated while another deck with slides was in the database
CreationIsAppendOnlyReached ==
    /\ last.op = "generateDeck"
    /\ last.status = 200
    /\ ~last.hit
    /\ \E d \in decks : d.id # last.id /\ SelectSlides(d.id) # <<>>
    /\ SelectSlides(last.id) # <<>>

----------------------------------------------------------------------------
(* Interleaved requests: generateDeck and generateTopic, one step per await.  *)
(* Node runs a handler up to its next await and then any other handler that  *)
(* is ready; a handler suspended at an await sits in a slot of inflight.       *)

\* the requests of the interleaved runs: one teacher, valid bodies with a chapter
RaceCallers == {c \in Callers : c.id = "u1"}

RaceDeckBodies == {b \in DeckBodies : ValidDeckRequest(b) /\ b.chapter # ""}

RaceTopicBodies == {b \in TopicBodies : ValidTopicRequest(b)}

\* the slots whose request is suspended
Busy == {s \in Slots : inflight[s].pc # "idle"}

\* a request is taken in only while the run has timestamps left for it and for
\* every suspended request
Admit(s) ==
    /\ inflight[s].pc = "idle"
    /\ clock + Cardinality(Busy) < MaxClock

\* the handler of slot s suspends at an await
Suspend(s, op, user, body, pc, lk, ai) ==
    /\ inflight' = [inflight EXCEPT ![s] = [op |-> op, user |-> user, body |-> body,
                                            pc |-> pc, lk |-> lk, ai |-> ai]]
    /\ UNCHANGED <<config, tables, nextId, clock, last, aiChildren>>

\* the handler of slot s has responded
Finish(s) ==
    /\ inflight' = [inflight EXCEPT ![s] = NoneInFlight]
    /\ UNCHANGED config

\* the answer of the AI service a suspended handler resumes with
Resumed(s) == [ok |-> inflight[s].ai.ok, data |-> inflight[s].ai.data]

\* the axios.post of this handler is given { timeout: AI_SERVICE_TIMEOUT }
HasTimeout(op) == op \in {"generateDeck", "generateActivity", "generateLessonPlan"}

\* generateDeck up to its first await: the cache SELECT, or the axios.post
deckStart(s, user, body) ==
    LET op == "generateDeck" IN
    /\ Admit(s)
    /\ IF ~ValidDeckRequest(body) THEN RejectInvalid(op, user, body) /\ UNCHANGED env
       ELSE IF UseDeckCache(body) THEN Suspend(s, op, user, body, "lookup", 1, NoCall)
       ELSE IF AI_SERVICE_URL = NULL THEN NotConfigured(op, user, body, 0) /\ UNCHANGED env
       ELSE Suspend(s, op, user, body, "call", 0, NoCall)

\* the cache SELECT of generateDeck returns
deckLookup(s) ==
    LET r == inflight[s]
        existingDeck ==
            SelectCachedDeck(r.user.id, r.body.subject, r.body.gradeLevel, r.body.chapter)
    IN
    /\ r.op = "generateDeck" /\ r.pc = "lookup"
    /\ IF existingDeck # <<>>
       THEN ReturnCachedDeck(r.op, r.user, r.body, existingDeck[1], 0) /\ Finish(s)
       ELSE IF AI_SERVICE_URL = NULL
       THEN NotConfigured(r.op, r.user, r.body, r.lk) /\ Finish(s)
       ELSE Suspend(s, r.op, r.user, r.body, "call", r.lk, NoCall)

\* the axios.post of generateDeck settles: the service answered or refused
deckAnswer(s, ai) ==
    LET r == inflight[s] IN
    /\ r.op = "generateDeck" /\ r.pc = "call"
    /\ IF ~ai.ok
       THEN ServiceUnavailable(r.op, r.user, r.body, ai, r.lk) /\ Finish(s)
       ELSE Suspend(s, r.op, r.user, r.body, "save", r.lk, Called(ai))

\* the axios.post of generateDeck is abandoned after AI_SERVICE_TIMEOUT
deckTimeout(s) ==
    LET r == inflight[s] IN
    /\ r.op = "generateDeck" /\ r.pc = "call"
    /\ HasTimeout(r.op)
    /\ ServiceUnavailable(r.op, r.user, r.body, [ok |-> FALSE, data |-> <<>>], r.lk)
    /\ Finish(s)

\* a single-flight generateDeck: before the inserts it looks the cache up again
\* and returns the deck an identical request has stored in the meantime
deckSaveSingleFlight(s) ==
    LET r == inflight[s]
        existingDeck ==
            SelectCachedDeck(r.user.id, r.body.subject, r.body.gradeLevel, r.body.chapter)
    IN
    /\ r.op = "generateDeck" /\ r.pc = "save"
    /\ IF UseDeckCache(r.body) /\ existingDeck # <<>>
       THEN ReturnCachedDeck(r.op, r.user, r.body, existingDeck[1], 0)
       ELSE SaveDeck(r.op, r.user, r.body, Resumed(s), r.lk, 0)
    /\ Finish(s)

\* generateDeck after the answer: the inserts and the response
deckSave(s) ==
    LET r == inflight[s] IN
    /\ r.op = "generateDeck" /\ r.pc = "save"
    /\ SaveDeck(r.op, r.user, r.body, Resumed(s), r.lk, 0)
    /\ Finish(s)

\* generateTopic up to its first await: the cache SELECT, or the axios.post
topicStart(s, user, body) ==
    LET op == "generateTopic" IN
    /\ Admit(s)
    /\ IF ~ValidTopicRequest(body) THEN RejectInvalid(op, user, body) /\ UNCHANGED env
       ELSE IF UseCache(body) THEN Suspend(s, op, user, body, "lookup", 1, NoCall)
       ELSE Suspend(s, op, user, body, "call", 0, NoCall)

\* the cache SELECT of generateTopic returns
topicLookup(s) ==
    LET r == inflight[s]
        existingTopic ==
            SelectCachedTopic(r.user.id, r.body.subject, r.body.gradeLevel, r.body.topic)
    IN
    /\ r.op = "generateTopic" /\ r.pc = "lookup"
    /\ IF existingTopic # <<>>
       THEN ReturnCachedTopic(r.op, r.user, r.body, existingTopic[1], 0) /\ Finish(s)
       ELSE Suspend(s, r.op, r.user, r.body, "call", r.lk, NoCall)

\* the axios.post of generateTopic settles: the service answered or refused
topicAnswer(s, ai) ==
    LET r == inflight[s] IN
    /\ r.op = "generateTopic" /\ r.pc = "call"
    /\ AI_SERVICE_URL # NULL
    /\ IF ~ai.ok
       THEN AxiosErrorPassed(r.op, r.user, r.body, ai, r.lk) /\ Finish(s)
       ELSE Suspend(s, r.op, r.user, r.body, "save", r.lk, Called(ai))

\* the axios.post of generateTopic to "undefined/..." is rejected at once
topicRejected(s) ==
    LET r == inflight[s] IN
    /\ r.op = "generateTopic" /\ r.pc = "call"
    /\ AI_SERVICE_URL = NULL
    /\ AxiosErrorPassed(r.op, r.user, r.body, [ok |-> FALSE, data |-> <<>>], r.lk)
    /\ Finish(s)

\* generateTopic after the answer: the inserts and the response
topicSave(s) ==
    LET r == inflight[s] IN
    /\ r.op = "generateTopic" /\ r.pc = "save"
    /\ SaveTopic(r.op, r.user, r.body, Resumed(s), r.lk, 0)
    /\ Finish(s)

NextInterleaved ==
    \/ \E s \in Slots, user \in RaceCallers, body \in RaceDeckBodies : deckStart(s, user, body)
    \/ \E s \in Slots : deckLookup(s)
    \/ \E s \in Slots, ai \in AIOutcomes(DeckPayloads) : deckAnswer(s, ai)
    \/ \E s \in Slots : deckTimeout(s)
    \/ \E s \in Slots : deckSave(s)
    \/ \E s \in Slots, user \in RaceCallers, body \in RaceTopicBodies : topicStart(s, user, body)
    \/ \E s \in Slots : topicLookup(s)
    \/ \E s \in Slots, ai \in AIOutcomes(DeckPayloads) : topicAnswer(s, ai)
    \/ \E s \in Slots : topicRejected(s)
    \/ \E s \in Slots : topicSave(s)

\* what the runtime guarantees: a query that was sent returns, a timer that was
\* set fires, a rejected promise is delivered.  Nothing makes the AI service
\* answer.
Scheduling ==
    \A s \in Slots :
        /\ WF_vars(deckLookup(s))
        /\ WF_vars(deckTimeout(s))
        /\ WF_vars(deckSave(s))
        /\ WF_vars(topicLookup(s))
        /\ WF_vars(topicRejected(s))
        /\ WF_vars(topicSave(s))

Interleaved == Init /\ [][NextInterleaved]_vars /\ Scheduling

----------------------------------------------------------------------------
(* Properties: interleaved requests *)

\* C14: every external call is abandoned after a timeout when the service does
\* not answer, so every request suspended at its call eventually resumes and
\* every request that was taken in is eventually answered.
ExternalCallsEnd ==
    \A s \in Slots :
        /\ (inflight[s].pc = "call") ~> (inflight[s].pc # "call")
        /\ (inflight[s].pc # "idle") ~> (inflight[s].pc = "idle")

\* C19: nothing deduplicates concurrent identical requests: a request that
\* missed the cache and got the answer of the external service always persists
\* a new artifact under a fresh id when it resumes, whatever an identical
\* request has persisted since its lookup.
UndeduplicatedRace ==
    [][\A s \in Slots :
          (inflight[s].pc = "save" /\ inflight'[s].pc = "idle")
              => /\ last'.op = inflight[s].op
                 /\ last'.status = 200
                 /\ ~last'.hit
                 /\ last'.ai.calls = 1
                 /\ last'.id = nextId
                 /\ nextId' = nextId + 1
                 /\ IF inflight[s].op = "generateDeck"
                    THEN \E d \in decks' \ decks :
                            d.id = nextId /\ decks' = decks \cup {d}
                    ELSE \E t \in topics' \ topics :
                            t.id = nextId /\ topics' = topics \cup {t}]_vars

\* two identical requests without forceRegenerate both looked up, both missed,
\* both called the external service, and two distinct artifacts with their
\* cache key are stored
UndeduplicatedRaceReached ==
    /\ last.op \in {"generateDeck", "generateTopic"}
    /\ SameRequestTwice
    /\ last.lookups = 1
    /\ ~last.hit
    /\ last.ai.calls = 1
    /\ last.prev.calls = 1
    /\ last.id # last.prev.id
    /\ \E a, b \in GenTable(last.op) :
          /\ a.id = last.prev.id
          /\ b.id = last.id
          /\ CacheKeyMatch(last.op, a, last.user, last.body)
          /\ CacheKeyMatch(last.op, b, last.user, last.body)

----------------------------------------------------------------------------
(* Error responses: generateDeck and updateDeckWithAI of one teacher, in every environment *)

\* the values of NODE_ENV the server is run with
Environments == {"production", "development", "test"}

InitErrors == Started /\ NODE_ENV \in Environments

NextErrors ==
    \/ \E user \in RaceCallers, body \in DeckBodies, ai \in AIOutcomes(DeckPayloads),
          dbFail \in FailPoints(MaxChildren + 3) :
            last.op = "none" /\ generateDeck(user, body, ai, dbFail)
    \/ \E user \in RaceCallers, body \in UpdateBodies, ai \in AIOutcomes(DeckPayloads),
          dbFail \in FailPoints(MaxChildren + 4) :
            last.op = "none" /\ updateDeckWithAI(user, body, ai, dbFail)
    \/ Idle

ErrorResponses == InitErrors /\ [][NextErrors]_vars

\* C15: every error response (validation failure, NotFound, external-service
\* failure, NotConfigured, database error) has the body {message, code}, with
\* stack added exactly when the environment is not production.
UniformErrorShape ==
    (last.op # "none" /\ last.status >= 400)
        => last.errorKeys = {"message", "code"}
                \cup (IF NODE_ENV # "production" THEN {"stack"} ELSE {})

----------------------------------------------------------------------------
(* services/ai.service.ts: aiGenerate and checkAiHealth *)

\* const AI_BASE_URL = process.env.AI_SERVICE_URL
AI_BASE_URL == AI_SERVICE_URL

\* how aiClient.post / aiClient.get can settle: resolved with data, or rejected
\* with an axios error (its code, the status of the response if there was one,
\* its message)
HttpOutcomes ==
    { [ok |-> TRUE, data |-> d, code |-> "", status |-> 200, message |-> ""] :
        d \in {"d1", "d2"} } \cup
    { [ok |-> FALSE, data |-> NULL, code |-> e[1], status |-> e[2], message |-> e[3]] :
        e \in { <<"ECONNREFUSED", 0, "connect ECONNREFUSED">>,
                <<"ETIMEDOUT", 0, "connect ETIMEDOUT">>,
                <<"ECONNABORTED", 0, "timeout of 15000ms exceeded">>,
                <<"ERR_BAD_RESPONSE", 503, "Request failed with status code 503">>,
                <<"ERR_BAD_RESPONSE", 500, "Request failed with status code 500">>,
                <<"ERR_BAD_REQUEST", 404, "">>,
                <<"", 0, "">> } }

\* the payloads handed to aiGenerate
AiPayloads == DeckBodies

\* what a call of one of the two functions came to: whether it threw, the value
\* it returned, and the number of HTTP requests it made
Returned(value, calls) == [threw |-> FALSE, value |-> value, calls |-> calls]

Thrown(calls) == [threw |-> TRUE, value |-> NULL, calls |-> calls]

\* the AIResponse of a failure
Failure(message) == [success |-> FALSE, data |-> NULL, message |-> message]

\* a faulty aiGenerate: an error it does not know is thrown again
aiGenerateRethrows(payload, http) ==
    IF AI_BASE_URL = NULL THEN Returned(Failure("AI service not configured"), 0)
    ELSE IF http.ok
    THEN Returned([success |-> TRUE, data |-> http.data, message |-> NULL], 1)
    ELSE IF http.code = "ECONNREFUSED"
    THEN Returned(Failure("AI service connection refused. Is it running?"), 1)
    ELSE Thrown(1)

aiGenerate(payload, http) ==
    IF AI_BASE_URL = NULL THEN Returned(Failure("AI service not configured"), 0)
    ELSE IF http.ok
    THEN Returned([success |-> TRUE, data |-> http.data, message |-> NULL], 1)
    ELSE IF http.code = "ECONNREFUSED"
    THEN Returned(Failure("AI service connection refused. Is it running?"), 1)
    ELSE IF http.code = "ETIMEDOUT" \/ http.code = "ECONNABORTED"
    THEN Returned(Failure("AI service request timed out"), 1)
    ELSE IF http.status = 503
    THEN Returned(Failure("AI service temporarily unavailable"), 1)
    ELSE Returned(Failure(IF http.message # "" THEN http.message
                          ELSE "AI service error occurred"), 1)

checkAiHealth(http) ==
    IF AI_BASE_URL = NULL THEN Returned(FALSE, 0)
    ELSE IF http.ok THEN Returned(TRUE, 1)
    ELSE Returned(FALSE, 1)

\* a caller awaits aiGenerate(payload)
aiGenerateCalled(payload, http) ==
    /\ last' = [op |-> "aiGenerate", payload |-> payload, http |-> http,
                result |-> aiGenerate(payload, http)]
    /\ UNCHANGED <<env, tables, nextId, clock, aiChildren>>

\* a caller awaits checkAiHealth()
checkAiHealthCalled(http) ==
    /\ last' = [op |-> "checkAiHealth", payload |-> NULL, http |-> http,
                result |-> checkAiHealth(http)]
    /\ UNCHANGED <<env, tables, nextId, clock, aiChildren>>

NextAiService ==
    \/ \E payload \in AiPayloads, http \in HttpOutcomes : aiGenerateCalled(payload, http)
    \/ \E http \in HttpOutcomes : checkAiHealthCalled(http)

AiService == Init /\ [][NextAiService]_vars

\* C16: aiGenerate never throws: it returns success with the data when the
\* HTTP call succeeds, success = false with a message for every failure, and
\* success = false with 'AI service not configured' and no HTTP call when the
\* URL is unset; checkAiHealth never throws and returns false when the URL is
\* unset (without a call) or the health call fails.
AiServiceNeverThrows ==
    /\ last.op = "aiGenerate"
          => /\ ~last.result.threw
             /\ last.result.value.success \in BOOLEAN
             /\ last.result.value.success
                   <=> (AI_BASE_URL # NULL /\ last.http.ok)
             /\ last.result.value.success => last.result.value.data = last.http.data
             /\ ~last.result.value.success
                   => last.result.value.message \notin {NULL, ""}
             /\ AI_BASE_URL = NULL
                   => /\ last.result.value.message = "AI service not configured"
                      /\ last.result.calls = 0
    /\ last.op = "checkAiHealth"
          => /\ ~last.result.threw
             /\ last.result.value \in BOOLEAN
             /\ last.result.value <=> (AI_BASE_URL # NULL /\ last.http.ok)
             /\ AI_BASE_URL = NULL => last.result.calls = 0

\* aiGenerate was given an error that has no code, no response and no message
AiServiceNeverThrowsReached ==
    /\ last.op = "aiGenerate"
    /\ AI_BASE_URL # NULL
    /\ ~last.http.ok
    /\ last.http.message = ""
    /\ last.http.code = ""
    /\ last.result.value.message = "AI service error occurred"

----------------------------------------------------------------------------
(* The cache keys: valid requests that differ in one field of the request *)

KeyDeckBodies ==
    [topics : {<<"Lens">>}, subject : {"Physics", "Maths"}, gradeLevel : {"9", "10"},
     chapter : {"Optics"}, forceRegenerate : BOOLEAN]

KeyActivityBodies ==
    [topic : {"Lens", "Mirror"}, subject : {"Physics"}, duration : {30},
     activityType : {"quiz"}, gradeLevel : {"9", "10"}, forceRegenerate : BOOLEAN]

KeyLessonPlanBodies ==
    [topics : {<<"Lens", "Mirror">>, <<"Mirror", "Lens">>}, subject : {"Physics"},
     gradeLevel : {"9", "10"}, totalDuration : {45}, forceRegenerate : BOOLEAN]

KeyTopicBodies ==
    [topic : {"Lens", "Mirror"}, subject : {"Physics"}, gradeLevel : {"9", "10"},
     forceRegenerate : BOOLEAN]

\* the AI service answers, and no query throws
Answered(payloads) == [ok |-> TRUE, data |-> CHOOSE p \in payloads : TRUE]

\* requests follow one another, each handled to its response
NextCacheKeys ==
    \/ \E user \in Callers, body \in KeyDeckBodies :
          generateDeck(user, body, Answered(DeckPayloads), 0)
    \/ \E user \in Callers, body \in KeyActivityBodies :
          generateActivity(user, body, Answered(ActivityPayloads), 0)
    \/ \E user \in Callers, body \in KeyLessonPlanBodies :
          generateLessonPlan(user, body, Answered(LessonPlanPayloads), 0)
    \/ \E user \in Callers, body \in KeyTopicBodies :
          generateTopic(user, body, Answered(DeckPayloads), 0)

CacheKeys == Init /\ [][NextCacheKeys]_vars

\* the topic-identifying field of a request
TopicKey(op, body) ==
    IF op = "generateDeck" THEN body.chapter
    ELSE IF op = "generateLessonPlan" THEN body.topics
    ELSE body.topic

\* this response is a cache hit that returned the artifact which the request
\* answered just before it had generated
HitOnArtifactJustGenerated ==
    /\ last.op \in GenOps
    /\ last.hit
    /\ last.prev.op = last.op
    /\ last.prev.status = 200
    /\ last.prev.calls = 1
    /\ last.prev.id = last.id

\* C17: the artifact returned by a cache hit was created by the requester and
\* generated for the subject, the gradeLevel and the topic key of the request,
\* for every content type.
CacheHitMatchesRequest ==
    HitOnArtifactJustGenerated
        => /\ last.user.id = last.prev.user.id
           /\ last.body.subject = last.prev.body.subject
           /\ last.body.gradeLevel = last.prev.body.gradeLevel
           /\ TopicKey(last.op, last.body) = TopicKey(last.op, last.prev.body)

\* the elements of a list
Elements(list) == {list[i] : i \in 1..Len(list)}

\* C18: a lesson-plan request whose topic list has the same elements as the one
\* of the request that generated a plan just before it, for the same requester,
\* subject and gradeLevel, hits that plan whatever the order of the elements: no
\* external call, same artifact id.
LessonPlanSetEquality ==
    ( /\ last.op = "generateLessonPlan"
      /\ ~last.body.forceRegenerate
      /\ last.prev.op = "generateLessonPlan"
      /\ last.prev.status = 200
      /\ last.prev.calls = 1
      /\ last.user.id = last.prev.user.id
      /\ last.body.subject = last.prev.body.subject
      /\ last.body.gradeLevel = last.prev.body.gradeLevel
      /\ Elements(last.body.topics) = Elements(last.prev.body.topics) )
        => /\ last.hit
           /\ last.ai.calls = 0
           /\ last.id = last.prev.id

----------------------------------------------------------------------------
(* updateDeckWithAI next to getDeckById, one step per await.  Every query is  *)
(* its own statement on the pool: nothing opens a transaction, so what a      *)
(* query wrote is stored and visible to the next query of any handler.        *)

\* the handler of slot s goes on to its next await
Proceed(s, pc, lk) ==
    inflight' = [inflight EXCEPT ![s] = [@ EXCEPT !.pc = pc, !.lk = lk]]

\* updateDeckWithAI up to its first await
updateDeckStart(s, user, body) ==
    /\ Admit(s)
    /\ Suspend(s, "updateDeckWithAI", user, body, "scope", 0, NoCall)

\* "1. Fetch current deck" returns or throws
updateDeckScope(s, throws) ==
    LET r == inflight[s] IN
    /\ r.op = "updateDeckWithAI" /\ r.pc = "scope"
    /\ IF throws THEN DbError(r.op, r.user, r.body, NoCall, 0) /\ NoWrite /\ Finish(s)
       ELSE IF SelectInScope(decks, r.body.id, r.user.school_id) = {}
       THEN NotFound(r.op, r.user, r.body, "DECK_NOT_FOUND") /\ Finish(s)
       ELSE Suspend(s, r.op, r.user, r.body, "slides", 0, NoCall)

\* "2. Fetch current slides" returns or throws
updateDeckSlides(s, throws) ==
    LET r == inflight[s] IN
    /\ r.op = "updateDeckWithAI" /\ r.pc = "slides"
    /\ IF throws THEN DbError(r.op, r.user, r.body, NoCall, 0) /\ NoWrite /\ Finish(s)
       ELSE Suspend(s, r.op, r.user, r.body, "call", 0, NoCall)

\* "3. Call AI to modify": the axios.post settles
updateDeckAnswer(s, ai) ==
    LET r == inflight[s]
        aiResponse == axiosPost(ai)
    IN
    /\ r.op = "updateDeckWithAI" /\ r.pc = "call"
    /\ IF ~aiResponse.ok THEN ModifyFailed(r.op, r.user, r.body, aiResponse) /\ Finish(s)
       ELSE Suspend(s, r.op, r.user, r.body, "title", 0, Called(aiResponse))

\* UPDATE decks SET title = $1, updated_at = NOW() WHERE id = $2
updateDeckTitle(s, throws) ==
    LET r == inflight[s] IN
    /\ r.op = "updateDeckWithAI" /\ r.pc = "title"
    /\ IF throws THEN DbError(r.op, r.user, r.body, r.ai, 0) /\ NoWrite /\ Finish(s)
       ELSE /\ clock < MaxClock
            /\ clock' = clock + 1
            /\ decks' = UpdateTitle(decks, r.body.id, r.ai.data.title, clock + 1)
            /\ Remember(r.body.id, r.ai.data.slides)
            /\ Proceed(s, "delete", 0)
            /\ UNCHANGED <<config, slides, topics, topic_items, lesson_plans, activities,
                           analytics_events, nextId, last>>

\* DELETE FROM slides WHERE deck_id = $1
updateDeckDelete(s, throws) ==
    LET r == inflight[s] IN
    /\ r.op = "updateDeckWithAI" /\ r.pc = "delete"
    /\ IF throws THEN DbError(r.op, r.user, r.body, r.ai, 0) /\ NoWrite /\ Finish(s)
       ELSE /\ slides' = DeleteSlides(slides, r.body.id)
            /\ IF Len(r.ai.data.slides) = 0
               THEN Reply(r.op, r.user, r.body, 200, "OK", 0, <<>>, r.ai, 0, FALSE) /\ Finish(s)
               ELSE Proceed(s, "insert", 1) /\ UNCHANGED <<config, last>>
            /\ UNCHANGED <<decks, topics, topic_items, lesson_plans, activities,
                           analytics_events, nextId, clock, aiChildren>>

\* the INSERT INTO slides of the loop's turn inflight[s].lk
updateDeckInsert(s, throws) ==
    LET r == inflight[s]
        newSlides == r.ai.data.slides
    IN
    /\ r.op = "updateDeckWithAI" /\ r.pc = "insert"
    /\ IF throws THEN DbError(r.op, r.user, r.body, r.ai, 0) /\ NoWrite /\ Finish(s)
       ELSE /\ slides' = InsertSlides(slides, r.body.id, SubSeq(newSlides, r.lk, r.lk), 1)
            /\ IF r.lk = Len(newSlides)
               THEN Reply(r.op, r.user, r.body, 200, "OK", 0, <<>>, r.ai, 0, FALSE) /\ Finish(s)
               ELSE Proceed(s, "insert", r.lk + 1) /\ UNCHANGED <<config, last>>
            /\ UNCHANGED <<decks, topics, topic_items, lesson_plans, activities,
                           analytics_events, nextId, clock, aiChildren>>

\* getDeckById up to its first await
getDeckStart(s, user, body) ==
    /\ inflight[s].pc = "idle"
    /\ Suspend(s, "getDeckById", user, body, "scope", 0, NoCall)

\* SELECT * FROM decks WHERE id = $1 AND (school_id = $2 OR ...) returns or throws
getDeckScope(s, throws) ==
    LET r == inflight[s] IN
    /\ r.op = "getDeckById" /\ r.pc = "scope"
    /\ IF throws THEN DbError(r.op, r.user, r.body, NoCall, 0) /\ NoWrite /\ Finish(s)
       ELSE IF SelectInScope(decks, r.body.id, r.user.school_id) = {}
       THEN NotFound(r.op, r.user, r.body, "DECK_NOT_FOUND") /\ Finish(s)
       ELSE Suspend(s, r.op, r.user, r.body, "slides", 0, NoCall)

\* SELECT * FROM slides WHERE deck_id = $1 ORDER BY slide_order returns or
\* throws; res.json({ ...result.rows[0], slides: slidesResult.rows })
getDeckSlides(s, throws) ==
    LET r == inflight[s] IN
    /\ r.op = "getDeckById" /\ r.pc = "slides"
    /\ IF throws THEN DbError(r.op, r.user, r.body, NoCall, 0)
       ELSE Reply(r.op, r.user, r.body, 200, "OK", r.body.id, SelectSlides(r.body.id),
                  NoCall, 0, FALSE)
    /\ NoWrite
    /\ Finish(s)

\* decks are generated while no other request is in flight; updates and reads
\* of any deck id overlap
NextReplacing ==
    \/ \E user \in RaceCallers, body \in RaceDeckBodies, ai \in AIOutcomes(DeckPayloads) :
          Busy = {} /\ generateDeck(user, body, ai, 0)
    \/ \E s \in Slots, user \in RaceCallers, body \in UpdateBodies :
          updateDeckStart(s, user, body)
    \/ \E s \in Slots, throws \in BOOLEAN : updateDeckScope(s, throws)
    \/ \E s \in Slots, throws \in BOOLEAN : updateDeckSlides(s, throws)
    \/ \E s \in Slots, ai \in AIOutcomes(DeckPayloads) : updateDeckAnswer(s, ai)
    \/ \E s \in Slots, throws \in BOOLEAN : updateDeckTitle(s, throws)
    \/ \E s \in Slots, throws \in BOOLEAN : updateDeckDelete(s, throws)
    \/ \E s \in Slots, throws \in BOOLEAN : updateDeckInsert(s, throws)
    \/ \E s \in Slots, user \in RaceCallers, body \in UpdateBodies :
          getDeckStart(s, user, body)
    \/ \E s \in Slots, throws \in BOOLEAN : getDeckScope(s, throws)
    \/ \E s \in Slots, throws \in BOOLEAN : getDeckSlides(s, throws)

Replacing == Init /\ [][NextReplacing]_vars

\* the children lists deck id has had: the one of its generation and the ones
\* of its updates
Current(id) ==
    IF id \in DOMAIN aiChildren
    THEN {aiChildren[id][i] : i \in 1..Len(aiChildren[id])}
    ELSE {}

\* an updateDeckWithAI of deck id is in progress
Updating(id) ==
    \E s \in Slots : inflight[s].op = "updateDeckWithAI" /\ inflight[s].body.id = id

\* C20: whenever no update of a deck is in progress, and so after one was
\* interrupted by a failure at any statement, the stored slides of the deck are
\* a children list of its generation or of one of its updates (Current) or
\* there are none (Replacing); and a getDeckById answered at any point of an
\* update returns a Current list, never the Replacing state.
CurrentOrReplacing ==
    /\ \A d \in decks :
          ~Updating(d.id)
              => ChildrenOfSlides(SelectSlides(d.id)) \in Current(d.id) \cup {<<>>}
    /\ (last.op = "getDeckById" /\ last.status = 200)
          => ChildrenOfSlides(last.slides) \in Current(last.id)

----------------------------------------------------------------------------
(* Properties: the writes of a generation *)

\* the response of this step is a generation that missed the cache and succeeded
SuccessfulMiss ==
    /\ last'.op \in GenOps
    /\ last'.status = 200
    /\ ~last'.hit
    /\ last'.ai.calls = 1

\* C21: a cache miss that succeeds writes the new artifact row and its
\* children and nothing else: no other table is written.
MissWritesArtifactOnly ==
    [][SuccessfulMiss
          => /\ analytics_events' = analytics_events
             /\ last'.op # "generateDeck" => UNCHANGED <<decks, slides>>
             /\ last'.op # "generateTopic" => UNCHANGED <<topics, topic_items>>
             /\ last'.op # "generateLessonPlan" => UNCHANGED lesson_plans
             /\ last'.op # "generateActivity" => UNCHANGED activities]_vars

----------------------------------------------------------------------------
(* The life of an artifact: generated, read, deleted.  One teacher, whose     *)
(* school assignment (req.user.school_id, read from the token of each        *)
(* request) may differ from one request to the next.                          *)

LifeCallers == [id : {"u1"}, school_id : {NULL, "s1"}]

LifeDeckBodies ==
    [topics : {<<"Lens">>}, subject : {"Physics"}, gradeLevel : {"10"},
     chapter : {"Optics"}, forceRegenerate : BOOLEAN]

LifeTopicBodies ==
    [topic : {"Lens"}, subject : {"Physics"}, gradeLevel : {"10"},
     forceRegenerate : BOOLEAN]

LifeActivityBodies ==
    [topic : {"Lens"}, subject : {"Physics"}, duration : {30},
     activityType : {"quiz"}, gradeLevel : {"10"}, forceRegenerate : BOOLEAN]

\* the answers of the AI service: the children in their order, or out of it
LifePayloads ==
    {p \in DeckPayloads : Len(p.slides) = 1} \cup
    { [title |-> "C", slides |-> << [title |-> "c2", content |-> "v", order |-> 2],
                                    [title |-> "c1", content |-> "u", order |-> 1] >>] }

\* req.params of the routes with an :id
IdParams == [id : 1..nextId]

\* getDeckById: query 1 selects the deck in the caller's scope, query 2 its slides
getDeckById(user, body, dbFail) ==
    LET op == "getDeckById"
        result == SelectInScope(decks, body.id, user.school_id)
    IN
    /\ UNCHANGED env
    /\ IF dbFail = 1 THEN DbError(op, user, body, NoCall, 0) /\ NoWrite
       ELSE IF result = {} THEN NotFound(op, user, body, "DECK_NOT_FOUND")
       ELSE IF dbFail = 2 THEN DbError(op, user, body, NoCall, 0) /\ NoWrite
       ELSE /\ Reply(op, user, body, 200, "OK", body.id, SelectSlides(body.id),
                     NoCall, 0, FALSE)
            /\ NoWrite

\* getTopicById: query 1 selects the topic in the caller's scope, query 2 its items
getTopicById(user, body, dbFail) ==
    LET op == "getTopicById"
        result == SelectInScope(topics, body.id, user.school_id)
    IN
    /\ UNCHANGED env
    /\ IF dbFail = 1 THEN DbError(op, user, body, NoCall, 0) /\ NoWrite
       ELSE IF result = {} THEN NotFound(op, user, body, "TOPIC_NOT_FOUND")
       ELSE IF dbFail = 2 THEN DbError(op, user, body, NoCall, 0) /\ NoWrite
       ELSE /\ Reply(op, user, body, 200, "OK", body.id, SelectTopicItems(body.id),
                     NoCall, 0, FALSE)
            /\ NoWrite

\* getActivityById: SELECT * FROM activities WHERE id = $1 AND school_id = $2
getActivityById(user, body, dbFail) ==
    LET op == "getActivityById"
        result == {a \in activities : a.id = body.id /\ SqlEq(a.school_id, user.school_id)}
    IN
    /\ UNCHANGED env
    /\ IF dbFail = 1 THEN DbError(op, user, body, NoCall, 0) /\ NoWrite
       ELSE IF result = {} THEN NotFound(op, user, body, "ACTIVITY_NOT_FOUND")
       ELSE Reply(op, user, body, 200, "OK", body.id, <<>>, NoCall, 0, FALSE) /\ NoWrite

\* DELETE FROM <table> WHERE id = $1 AND school_id = $2: the rows that go
DeleteOfSchool(table, id, schoolId) ==
    {r \in table : r.id = id /\ SqlEq(r.school_id, schoolId)}

\* the foreign key of slides.deck_id, whose definition is in no migration of the
\* repository: it deletes the slides with their deck, or refuses to delete a
\* deck that has slides, or there is none
SlidesForeignKey == {"CASCADE", "RESTRICT", "NONE"}

\* res.json({ message: '... successfully' })
Done(op, user, body) == Reply(op, user, body, 200, "OK", 0, <<>>, NoCall, 0, FALSE)

\* deleteDeck
deleteDeck(user, body, fk, dbFail) ==
    LET op == "deleteDeck"
        gone == DeleteOfSchool(decks, body.id, user.school_id)
        refused == gone # {} /\ fk = "RESTRICT" /\ SelectSlides(body.id) # <<>>
    IN
    /\ UNCHANGED env
    /\ IF dbFail = 1 \/ refused THEN DbError(op, user, body, NoCall, 0) /\ NoWrite
       ELSE /\ decks' = decks \ gone
            /\ slides' = IF gone # {} /\ fk = "CASCADE" THEN DeleteSlides(slides, body.id)
                          ELSE slides
            /\ Done(op, user, body)
            /\ UNCHANGED <<topics, topic_items, lesson_plans, activities, analytics_events,
                           nextId, clock, aiChildren>>

\* deleteTopic; topic_items.topic_id REFERENCES topics(id) ON DELETE CASCADE
deleteTopic(user, body, dbFail) ==
    LET op == "deleteTopic"
        gone == DeleteOfSchool(topics, body.id, user.school_id)
    IN
    /\ UNCHANGED env
    /\ IF dbFail = 1 THEN DbError(op, user, body, NoCall, 0) /\ NoWrite
       ELSE /\ topics' = topics \ gone
            /\ topic_items' = IF gone # {} THEN DeleteTopicItems(topic_items, body.id)
                               ELSE topic_items
            /\ Done(op, user, body)
            /\ UNCHANGED <<decks, slides, lesson_plans, activities, analytics_events,
                           nextId, clock, aiChildren>>

\* deleteActivity
deleteActivity(user, body, dbFail) ==
    LET op == "deleteActivity"
        gone == DeleteOfSchool(activities, body.id, user.school_id)
    IN
    /\ UNCHANGED env
    /\ IF dbFail = 1 THEN DbError(op, user, body, NoCall, 0) /\ NoWrite
       ELSE /\ activities' = activities \ gone
            /\ Done(op, user, body)
            /\ UNCHANGED <<decks, slides, topics, topic_items, lesson_plans,
                           analytics_events, nextId, clock, aiChildren>>

\* requests follow one another, each handled to its response; no query throws
NextLifecycle ==
    \/ \E user \in LifeCallers, body \in LifeDeckBodies, p \in LifePayloads :
          generateDeck(user, body, [ok |-> TRUE, data |-> p], 0)
    \/ \E user \in LifeCallers, body \in LifeTopicBodies, p \in LifePayloads :
          generateTopic(user, body, [ok |-> TRUE, data |-> p], 0)
    \/ \E user \in LifeCallers, body \in IdParams : getDeckById(user, body, 0)
    \/ \E user \in LifeCallers, body \in IdParams : getTopicById(user, body, 0)

Lifecycle == Init /\ [][NextLifecycle]_vars

\* the requests of the runs with deletes: generations that may use the cache
Cacheable(bodies) == {b \in bodies : ~b.forceRegenerate}

\* artifacts are generated, read and deleted, request after request; no query
\* throws
NextDeletion ==
    \/ \E user \in LifeCallers, body \in Cacheable(LifeDeckBodies) :
          generateDeck(user, body, Answered(DeckPayloads), 0)
    \/ \E user \in LifeCallers, body \in Cacheable(LifeTopicBodies) :
          generateTopic(user, body, Answered(DeckPayloads), 0)
    \/ \E user \in LifeCallers, body \in Cacheable(LifeActivityBodies) :
          generateActivity(user, body, Answered(ActivityPayloads), 0)
    \/ \E user \in LifeCallers, body \in IdParams : getDeckById(user, body, 0)
    \/ \E user \in LifeCallers, body \in IdParams : getTopicById(user, body, 0)
    \/ \E user \in LifeCallers, body \in IdParams : getActivityById(user, body, 0)
    \/ \E user \in LifeCallers, body \in IdParams, fk \in SlidesForeignKey :
          deleteDeck(user, body, fk, 0)
    \/ \E user \in LifeCallers, body \in IdParams : deleteTopic(user, body, 0)
    \/ \E user \in LifeCallers, body \in IdParams : deleteActivity(user, body, 0)

Deletion == Init /\ [][NextDeletion]_vars

\* this response returns the stored children of an artifact: a cache hit, or a
\* read by id
ReturnsStoredChildren ==
    /\ last.op \in {"generateDeck", "generateTopic", "getDeckById", "getTopicById"}
    /\ last.status = 200
    /\ last.op \in GenOps => last.hit

\* the children a response returned, by title, content and order
ReturnedChildren ==
    IF last.op \in {"generateDeck", "getDeckById"} THEN ChildrenOfSlides(last.slides)
    ELSE ChildrenOfItems(last.slides)

----------------------------------------------------------------------------
(* Properties: delete *)

DeleteOps == {"deleteDeck", "deleteTopic", "deleteActivity"}

\* the artifacts of the content type of a request, in tables d, t and a
ArtifactsOf(op, d, t, a) ==
    IF op \in {"deleteDeck", "getDeckById", "generateDeck"} THEN d
    ELSE IF op \in {"deleteTopic", "getTopicById", "generateTopic"} THEN t
    ELSE a

\* the artifact with this id is stored and its scope is the caller's (both may
\* be null)
OwnedBy(rows, id, user) ==
    \E r \in rows : r.id = id /\ r.school_id = user.school_id

\* the read by id and the generation of the content type of a delete
GetOf(op) ==
    IF op = "deleteDeck" THEN "getDeckById"
    ELSE IF op = "deleteTopic" THEN "getTopicById"
    ELSE "getActivityById"

GenerateOf(op) ==
    IF op = "deleteDeck" THEN "generateDeck"
    ELSE IF op = "deleteTopic" THEN "generateTopic"
    ELSE "generateActivity"

\* C24: after a delete of an artifact of the caller's scope (both null
\* included) is answered with success the artifact is gone; the caller's next
\* read of it by id is answered 404 and the caller's next generation does not
\* return it.
DeleteIsEffective ==
    [][ /\ ( /\ last'.op \in DeleteOps
             /\ last'.status = 200
             /\ OwnedBy(ArtifactsOf(last'.op, decks, topics, activities),
                        last'.body.id, last'.user) )
           => \A r \in ArtifactsOf(last'.op, decks', topics', activities') :
                 r.id # last'.body.id
        /\ ( /\ last.op \in DeleteOps
             /\ last.status = 200
             /\ last'.user = last.user
             /\ last'.op = GetOf(last.op)
             /\ last'.body.id = last.body.id )
           => last'.status = 404
        /\ ( /\ last.op \in DeleteOps
             /\ last.status = 200
             /\ last'.user = last.user
             /\ last'.op = GenerateOf(last.op)
             /\ last'.status = 200 )
           => last'.id # last.body.id ]_vars

----------------------------------------------------------------------------
(* Properties: decks without a chapter *)

\* C23: a valid deck request with topics and no chapter is answered without a
\* cache lookup, whatever forceRegenerate is: it calls the external service
\* when one is configured, and when it succeeds it has stored a new deck, so
\* that the same request sent twice gets two different ids.
NoChapterNoCache ==
    (last.op = "generateDeck" /\ last.status # 400 /\ last.body.chapter = "")
        => /\ last.lookups = 0
           /\ ~last.hit
           /\ AI_SERVICE_URL # NULL => last.ai.calls = 1
           /\ last.status = 200
                 => /\ last.ai.calls = 1
                    /\ last.id = nextId - 1
                    /\ \E d \in decks : d.id = last.id /\ d.created_at = clock
                    /\ SameRequestTwice => last.id # last.prev.id

\* the same request without a chapter and without forceRegenerate was answered
\* twice, with two decks
NoChapterNoCacheReached ==
    /\ last.op = "generateDeck"
    /\ last.body.chapter = ""
    /\ SameRequestTwice
    /\ last.ai.calls = 1
    /\ last.prev.calls = 1
    /\ last.id # last.prev.id
    /\ \E a, b \in decks : a.id = last.prev.id /\ b.id = last.id

----------------------------------------------------------------------------
(* Properties: the scope of a cache hit *)

\* C25: the artifact a cache hit returns has the scope the caller has now
\* (both may be null), so the caller can read it by id, also when the caller's
\* school assignment has changed since the artifact was generated.
CacheHitInScope ==
    (last.op \in {"generateDeck", "generateTopic"} /\ last.hit)
        => /\ OwnedBy(ArtifactsOf(last.op, decks, topics, activities), last.id, last.user)
           /\ SelectInScope(ArtifactsOf(last.op, decks, topics, activities),
                            last.id, last.user.school_id) # {}

----------------------------------------------------------------------------
(* updateDeck and updateTopic: the manual edit of an artifact and of its      *)
(* children.  No action of these runs deletes a child, so a row of slides or  *)
(* of topic_items is identified (its id column) by its position in the table. *)

\* the timestamps of the runs with manual or concurrent updates
MaxUpdateClock == 3

\* req.body of PUT /deck/:id and PUT /topic/:id with its path id: a title and,
\* when given, the children to edit, each with the id of its row
EditBodies(children) ==
    [id : 1..nextId, title : {"T"},
     slides : {<<>>} \cup { <<[id |-> i, title |-> "t", content |-> "c"]>> :
                             i \in 1..Len(children) }]

\* UPDATE <table> SET title = $1, updated_at = NOW() WHERE id = $2 AND school_id = $3
UpdateTitleOfSchool(table, id, schoolId, newTitle, now) ==
    {IF r.id = id /\ SqlEq(r.school_id, schoolId)
     THEN [r EXCEPT !.title = newTitle, !.updated_at = now] ELSE r : r \in table}

\* the loop of UPDATE <children> SET title = $1, content = $2 WHERE id = $3 over
\* the first k children of the request
RECURSIVE UpdateChildren(_, _, _)
UpdateChildren(children, edits, k) ==
    IF k = 0 THEN children
    ELSE LET done == UpdateChildren(children, edits, k - 1)
             slide == edits[k]
         IN [i \in DOMAIN done |->
                IF i = slide.id
                THEN [done[i] EXCEPT !.title = slide.title, !.content = slide.content]
                ELSE done[i]]

updateDeck(user, body, dbFail) ==
    LET op == "updateDeck" IN
    /\ UNCHANGED env
    /\ IF dbFail = 1 THEN DbError(op, user, body, NoCall, 0) /\ NoWrite
       ELSE /\ clock < MaxUpdateClock
            /\ clock' = clock + 1
            /\ decks' = UpdateTitleOfSchool(decks, body.id, user.school_id, body.title,
                                            clock + 1)
            /\ slides' = UpdateChildren(slides, body.slides, Len(body.slides))
            /\ Done(op, user, body)
            /\ UNCHANGED <<topics, topic_items, lesson_plans, activities, analytics_events,
                           nextId, aiChildren>>

updateTopic(user, body, dbFail) ==
    LET op == "updateTopic" IN
    /\ UNCHANGED env
    /\ IF dbFail = 1 THEN DbError(op, user, body, NoCall, 0) /\ NoWrite
       ELSE /\ clock < MaxUpdateClock
            /\ clock' = clock + 1
            /\ topics' = UpdateTitleOfSchool(topics, body.id, user.school_id, body.title,
                                             clock + 1)
            /\ topic_items' = UpdateChildren(topic_items, body.slides, Len(body.slides))
            /\ Done(op, user, body)
            /\ UNCHANGED <<decks, slides, lesson_plans, activities, analytics_events,
                           nextId, aiChildren>>

\* artifacts are generated and edited, request after request; no query throws
NextManualUpdate ==
    \/ \E user \in LifeCallers, body \in LifeDeckBodies :
          generateDeck(user, body, Answered(DeckPayloads), 0)
    \/ \E user \in LifeCallers, body \in LifeTopicBodies :
          generateTopic(user, body, Answered(DeckPayloads), 0)
    \/ \E user \in LifeCallers, body \in EditBodies(slides) : updateDeck(user, body, 0)
    \/ \E user \in LifeCallers, body \in EditBodies(topic_items) : updateTopic(user, body, 0)

ManualUpdate == Init /\ [][NextManualUpdate]_vars

\* C26: a manual update changes only the artifact of the path id, when it is in
\* the caller's scope, and children of that artifact; it changes nothing when
\* the artifact is not in the caller's scope.
ManualUpdateInScope ==
    [][ /\ last'.op = "updateDeck"
           => /\ \A i \in DOMAIN slides :
                    slides'[i] # slides[i]
                       => /\ slides[i].deck_id = last'.body.id
                          /\ OwnedBy(decks, last'.body.id, last'.user)
              /\ \A d \in decks : d \notin decks'
                    => d.id = last'.body.id /\ d.school_id = last'.user.school_id
              /\ UNCHANGED <<topics, topic_items>>
        /\ last'.op = "updateTopic"
           => /\ \A i \in DOMAIN topic_items :
                    topic_items'[i] # topic_items[i]
                       => /\ topic_items[i].topic_id = last'.body.id
                          /\ OwnedBy(topics, last'.body.id, last'.user)
              /\ \A t \in topics : t \notin topics'
                    => t.id = last'.body.id /\ t.school_id = last'.user.school_id
              /\ UNCHANGED <<decks, slides>> ]_vars

----------------------------------------------------------------------------
(* Properties: the cache key under updateWithFeedback *)

\* the ids of the rows of a query result
IdsOf(rows) == {rows[i].id : i \in 1..Len(rows)}

\* what the cache lookup of every request finds: the id of the artifact it hits,
\* if any
DeckHits ==
    [r \in Callers \X DeckBodies |->
        IdsOf(SelectCachedDeck(r[1].id, r[2].subject, r[2].gradeLevel, r[2].chapter))]

TopicHits ==
    [r \in Callers \X TopicBodies |->
        IdsOf(SelectCachedTopic(r[1].id, r[2].subject, r[2].gradeLevel, r[2].topic))]

LessonPlanHits ==
    [r \in Callers \X LessonPlanBodies |->
        IdsOf(SelectCachedLessonPlan(r[1].id, r[2].subject, r[2].gradeLevel, r[2].topics))]

\* the columns of an artifact that make its cache key, and its creation time
KeyOf(r) == [x \in DOMAIN r \ {"title", "updated_at", "objectives", "concepts", "sequence",
                               "assessments", "resources"} |-> r[x]]

----------------------------------------------------------------------------
(* Two updateDeckWithAI of the same teacher at once, one step per await *)

\* updateDeckWithAI up to its first await, while the run has timestamps left
\* for it and for every suspended request
updateDeckStartUpTo(s, user, body) ==
    /\ inflight[s].pc = "idle"
    /\ clock + Cardinality(Busy) < MaxUpdateClock
    /\ Suspend(s, "updateDeckWithAI", user, body, "scope", 0, NoCall)

\* UPDATE decks SET title = $1, updated_at = NOW() WHERE id = $2
updateDeckTitleUpTo(s) ==
    LET r == inflight[s] IN
    /\ r.op = "updateDeckWithAI" /\ r.pc = "title"
    /\ clock < MaxUpdateClock
    /\ clock' = clock + 1
    /\ decks' = UpdateTitle(decks, r.body.id, r.ai.data.title, clock + 1)
    /\ Remember(r.body.id, r.ai.data.slides)
    /\ Proceed(s, "delete", 0)
    /\ UNCHANGED <<config, slides, topics, topic_items, lesson_plans, activities,
                   analytics_events, nextId, last>>

\* a deck is generated while no request is in flight; then updates overlap; the
\* AI service answers and no query throws
NextConcurrentUpdates ==
    \/ \E user \in RaceCallers, body \in Cacheable(RaceDeckBodies) :
          Busy = {} /\ generateDeck(user, body, Answered(DeckPayloads), 0)
    \/ \E s \in Slots, user \in RaceCallers, body \in UpdateBodies :
          updateDeckStartUpTo(s, user, body)
    \/ \E s \in Slots : updateDeckScope(s, FALSE)
    \/ \E s \in Slots : updateDeckSlides(s, FALSE)
    \/ \E s \in Slots, p \in DeckPayloads : updateDeckAnswer(s, [ok |-> TRUE, data |-> p])
    \/ \E s \in Slots : updateDeckTitleUpTo(s)
    \/ \E s \in Slots : updateDeckDelete(s, FALSE)
    \/ \E s \in Slots : updateDeckInsert(s, FALSE)

ConcurrentUpdates == Init /\ [][NextConcurrentUpdates]_vars

\* the last two responses are successful AI updates of the same deck, and no
\* update of it is in progress
TwoUpdatesSucceeded ==
    /\ last.op = "updateDeckWithAI"
    /\ last.status = 200
    /\ last.prev.op = "updateDeckWithAI"
    /\ last.prev.status = 200
    /\ last.prev.body.id = last.body.id
    /\ ~Updating(last.body.id)
    /\ last.body.id \in DOMAIN aiChildren
    /\ Len(aiChildren[last.body.id]) >= 2

\* C28: after two AI updates of the same deck have both succeeded, overlapping
\* or not, the deck has the children of exactly one of the two answers of the
\* service and the title of that same answer.
OneOfTwoUpdates ==
    TwoUpdatesSucceeded
        => LET id == last.body.id
               n == Len(aiChildren[id])
           IN \E p \in DeckPayloads :
                 /\ p.slides \in {aiChildren[id][n - 1], aiChildren[id][n]}
                 /\ ChildrenOfSlides(SelectSlides(id)) = p.slides
                 /\ \A d \in decks : d.id = id => d.title = p.title


\* --------------------------------------------------------------------------
\* Password reset (password-reset.controller.ts). The three routes are public:
\* the caller is known by the email or the token of the body alone.
\* --------------------------------------------------------------------------

\* how many hours the runs last
MaxHours == 2

\* crypto.randomBytes(32).toString('hex'), in the order drawn: 256 random bits,
\* taken never to repeat
ResetTokens == <<"t1", "t2", "t3">>

\* how many reset tokens the runs hand out
MaxTokens == Len(ResetTokens)

\* the bodies of POST /forgot-password: no email, an account's, nobody's
ForgotBodies == [email : {NULL, "u1@school", "u2@school", "nobody@school"}]

\* the tokens a client sends: none, one never handed out, one handed out at some time
SentTokens == {NULL, "t0"} \cup {ResetTokens[i] : i \in 1 .. MaxTokens}

\* the bodies of POST /verify-reset-token
VerifyBodies == [token : SentTokens]

\* the bodies of POST /reset-password: no password, one too short, one long enough
ResetBodies == [token : SentTokens, newPassword : {NULL, "abc", "abcdef"}]

\* res.json / next(error) of the three handlers
Answer(op, body, status, code, data) ==
    last' = [op |-> op, body |-> body, status |-> status, code |-> code, data |-> data]

\* SELECT id FROM users WHERE email = $1
UsersByEmail(email) == {id \in DOMAIN users : SqlEq(users[id].email, email)}

\* SELECT id, email FROM users WHERE reset_token = $1 AND reset_token_expires > NOW()
UsersByResetToken(token) ==
    {id \in DOMAIN users :
        /\ SqlEq(users[id].reset_token, token)
        /\ users[id].reset_token_expires # <<>>
        /\ users[id].reset_token_expires[1] > clock}

\* UPDATE users SET reset_token = $1, reset_token_expires = $2 WHERE id = $3
StoreResetToken(id, token, expires) ==
    [users EXCEPT ![id].reset_token = token, ![id].reset_token_expires = <<expires>>]

\* an UPDATE of the password that leaves the token where it is
SetPasswordOnly(id, hashedPassword) ==
    [users EXCEPT ![id].password = hashedPassword]

\* UPDATE users SET password = $1, reset_token = NULL, reset_token_expires = NULL
\* WHERE id = $2
SetPasswordClearToken(id, hashedPassword) ==
    [users EXCEPT ![id].password = hashedPassword,
                  ![id].reset_token = NULL,
                  ![id].reset_token_expires = <<>>]

\* the history after a reset succeeded with the token
MarkUsed(token) ==
    [i \in 1 .. Len(issued) |->
        IF issued[i].token = token THEN [issued[i] EXCEPT !.used = TRUE] ELSE issued[i]]

\* the rest of the state, which the three handlers never touch
OutsidePasswordReset ==
    <<tables, nextId, clock, aiChildren, inflight, AI_SERVICE_URL, NODE_ENV, attendance>>

\* POST /forgot-password. dbFail: the query that throws (0: none)
requestPasswordReset(body, dbFail) ==
    /\ UNCHANGED OutsidePasswordReset
    /\ IF body.email = NULL
       THEN /\ Answer("requestPasswordReset", body, 400, "EMAIL_REQUIRED", NULL)
            /\ UNCHANGED <<users, issued>>
       ELSE IF dbFail = 1
       THEN /\ Answer("requestPasswordReset", body, 500, "DB_ERROR", NULL)
            /\ UNCHANGED <<users, issued>>
       ELSE IF UsersByEmail(body.email) = {}
       THEN \* "If the email exists, a reset link has been sent"
            /\ Answer("requestPasswordReset", body, 200, "OK", NULL)
            /\ UNCHANGED <<users, issued>>
       ELSE /\ Len(issued) < MaxTokens
            /\ LET id == CHOOSE u \in UsersByEmail(body.email) : TRUE
                   resetToken == ResetTokens[Len(issued) + 1]
                   \* new Date(Date.now() + 3600000): one hour from now
                   resetTokenExpires == clock + 1
               IN  IF dbFail = 2
                   THEN /\ Answer("requestPasswordReset", body, 500, "DB_ERROR", NULL)
                        /\ UNCHANGED <<users, issued>>
                   ELSE /\ users' = StoreResetToken(id, resetToken, resetTokenExpires)
                        /\ issued' = Append(issued, [token |-> resetToken, user |-> id,
                                                     used |-> FALSE])
                        /\ Answer("requestPasswordReset", body, 200, "OK",
                                  IF NODE_ENV = "development" THEN resetToken ELSE NULL)

\* POST /verify-reset-token
verifyResetToken(body, dbFail) ==
    /\ UNCHANGED OutsidePasswordReset
    /\ UNCHANGED <<users, issued>>
    /\ IF body.token = NULL
       THEN Answer("verifyResetToken", body, 400, "TOKEN_REQUIRED", NULL)
       ELSE IF dbFail = 1
       THEN Answer("verifyResetToken", body, 500, "DB_ERROR", NULL)
       ELSE IF UsersByResetToken(body.token) = {}
       THEN Answer("verifyResetToken", body, 400, "INVALID_TOKEN", NULL)
       ELSE LET id == CHOOSE u \in UsersByResetToken(body.token) : TRUE
            IN  Answer("verifyResetToken", body, 200, "OK", users[id].email)

\* POST /reset-password
resetPassword(body, dbFail) ==
    /\ UNCHANGED OutsidePasswordReset
    /\ IF body.token = NULL \/ body.newPassword = NULL
       THEN /\ Answer("resetPassword", body, 400, "MISSING_FIELDS", NULL)
            /\ UNCHANGED <<users, issued>>
       ELSE IF Len(body.newPassword) < 6
       THEN /\ Answer("resetPassword", body, 400, "PASSWORD_TOO_SHORT", NULL)
            /\ UNCHANGED <<users, issued>>
       ELSE IF dbFail = 1
       THEN /\ Answer("resetPassword", body, 500, "DB_ERROR", NULL)
            /\ UNCHANGED <<users, issued>>
       ELSE IF UsersByResetToken(body.token) = {}
       THEN /\ Answer("resetPassword", body, 400, "INVALID_TOKEN", NULL)
            /\ UNCHANGED <<users, issued>>
       ELSE IF dbFail = 2
       THEN /\ Answer("resetPassword", body, 500, "DB_ERROR", NULL)
            /\ UNCHANGED <<users, issued>>
       ELSE LET id == CHOOSE u \in UsersByResetToken(body.token) : TRUE
                \* bcrypt.hash(newPassword, 10)
                hashedPassword == <<"bcrypt", body.newPassword>>
            IN  /\ users' = SetPasswordClearToken(id, hashedPassword)
                /\ issued' = MarkUsed(body.token)
                /\ Answer("resetPassword", body, 200, "OK", NULL)

\* an hour passes: NOW() and Date.now() move on
HourPasses ==
    /\ clock < MaxHours
    /\ clock' = clock + 1
    /\ UNCHANGED <<tables, nextId, aiChildren, inflight, AI_SERVICE_URL, NODE_ENV,
                   attendance, users, issued, last>>

NextPasswordReset ==
    \/ \E body \in ForgotBodies, dbFail \in FailPoints(2) : requestPasswordReset(body, dbFail)
    \/ \E body \in VerifyBodies, dbFail \in FailPoints(1) : verifyResetToken(body, dbFail)
    \/ \E body \in ResetBodies, dbFail \in FailPoints(2) : resetPassword(body, dbFail)
    \/ HourPasses

PasswordReset == Init /\ [][NextPasswordReset]_vars


\* the token was handed out and has since been used for a successful reset, or
\* its user has since been handed another one
Dead(token) ==
    \E i \in 1 .. Len(issued) :
        /\ issued[i].token = token
        /\ \/ issued[i].used
           \/ \E j \in (i + 1) .. Len(issued) : issued[j].user = issued[i].user

\* the step answers a request to op: every step but the passing of an hour does
Handled(op) == clock' = clock /\ last'.op = op

\* C29 as stated: once a reset succeeded with a token, or once its user asked for
\* another one, every verifyResetToken and resetPassword with that token, the
\* database answering, is refused with INVALID_TOKEN
DeadTokenIsInvalidToken ==
    [][ (/\ Handled("verifyResetToken") \/ Handled("resetPassword")
         /\ Dead(last'.body.token)
         /\ last'.code # "DB_ERROR")
            => last'.status = 400 /\ last'.code = "INVALID_TOKEN" ]_vars

\* C29: once a reset succeeded with a token, or once its user asked for another
\* one, every verifyResetToken and resetPassword with that token fails and
\* changes no account; the database answering, the refusal is INVALID_TOKEN
\* whenever the request carries a new password of six characters or more, the
\* password being validated before the token is looked up
DeadTokenIsRefused ==
    [][ (/\ Handled("verifyResetToken") \/ Handled("resetPassword")
         /\ Dead(last'.body.token))
            => /\ last'.status # 200
               /\ users' = users
               /\ (/\ last'.code # "DB_ERROR"
                   /\ \/ last'.op = "verifyResetToken"
                      \/ /\ last'.body.newPassword # NULL
                         /\ Len(last'.body.newPassword) >= 6)
                      => last'.status = 400 /\ last'.code = "INVALID_TOKEN" ]_vars

\* a reset with a token that an earlier reset had used was refused with INVALID_TOKEN
DeadTokenIsRefusedReached ==
    /\ last.op = "resetPassword"
    /\ last.code = "INVALID_TOKEN"
    /\ \E i \in 1 .. Len(issued) : issued[i].token = last.body.token /\ issued[i].used


\* --------------------------------------------------------------------------
\* Attendance (attendance.controller.ts, markAttendance)
\* --------------------------------------------------------------------------

\* new Date().toISOString().split('T')[0]: the day of the runs, days being counted
Today == 2

\* req.body.date: none (0), today, a day to come
AttendanceDates == {0, Today, Today + 1}

\* the records of req.body.attendance: a student and a status, "late" being one
\* the handler does not know
AttendanceRecords == [studentId : {"p1", "p2"}, status : {"present", "absent", "late"}]

\* req.body.attendance when it is an array: no, one or two records
AttendanceLists ==
    {<<>>} \cup {<<r>> : r \in AttendanceRecords}
           \cup {<<r1, r2>> : r1 \in AttendanceRecords, r2 \in AttendanceRecords}

\* req.body: isArray is whether attendance was sent and is an array
AttendanceBodies ==
    {b \in [date : AttendanceDates, isArray : BOOLEAN, attendance : AttendanceLists] :
        ~b.isArray => b.attendance = <<>>}

\* the teachers who call: authenticate, authorize('teacher')
AttendanceCallers == {c \in Callers : users[c.id].role = "teacher"}

\* the row of the student and the date, if there is one
AttendanceOf(rows, studentId, date) ==
    {r \in rows : r.student_id = studentId /\ r.date = date}

\* the INSERT is rejected: a NOT NULL column is given NULL, a foreign key names
\* no user, or the status fails the CHECK of the table
InsertRejected(row) ==
    \/ row.class = NULL
    \/ row.section = NULL
    \/ row.student_id \notin DOMAIN users
    \/ row.teacher_id \notin DOMAIN users
    \/ row.status \notin {"present", "absent"}

\* INSERT INTO attendance (student_id, teacher_id, class, section, date, status)
\* VALUES (..) ON CONFLICT (student_id, date)
\* DO UPDATE SET status = $6, teacher_id = $2, marked_at = NOW()
UpsertAttendance(rows, row) ==
    IF AttendanceOf(rows, row.student_id, row.date) = {}
    THEN rows \cup {row}
    ELSE {IF r \in AttendanceOf(rows, row.student_id, row.date)
          THEN [r EXCEPT !.status = row.status, !.teacher_id = row.teacher_id,
                         !.marked_at = row.marked_at]
          ELSE r : r \in rows}

\* for (const record of attendance) { .. }: the records from the i-th on, each
\* checked and then upserted in a statement of its own; dbFail: the query that
\* throws (0: none, 1: the SELECT of the teacher, i + 1: the i-th upsert)
RECURSIVE MarkEach(_, _, _, _, _, _)
MarkEach(rows, teacherId, teacher, body, i, dbFail) ==
    IF i > Len(body.attendance)
    THEN [rows |-> rows, code |-> "OK"]
    ELSE LET record == body.attendance[i]
             row == [student_id |-> record.studentId, teacher_id |-> teacherId,
                     class |-> teacher.class_teacher_of,
                     section |-> teacher.assigned_section,
                     date |-> body.date, status |-> record.status,
                     marked_at |-> clock, school_id |-> NULL]
         IN  IF record.status \notin {"present", "absent"}
             THEN [rows |-> rows, code |-> "INVALID_STATUS"]
             ELSE IF dbFail = i + 1 \/ InsertRejected(row)
             THEN [rows |-> rows, code |-> "DB_ERROR"]
             ELSE MarkEach(UpsertAttendance(rows, row), teacherId, teacher, body,
                           i + 1, dbFail)

\* how many records of the list carry the status
CountStatus(list, status) ==
    Cardinality({i \in 1 .. Len(list) : list[i].status = status})

\* res.json / next(error) of markAttendance
Marked(user, body, status, code, summary) ==
    last' = [op |-> "markAttendance", user |-> user, body |-> body, status |-> status,
             code |-> code, summary |-> summary]

\* no summary is sent with an error
NoSummary == [total |-> 0, present |-> 0, absent |-> 0, date |-> 0]

\* the rest of the state, which markAttendance never touches
OutsideAttendance ==
    <<tables, nextId, clock, aiChildren, inflight, AI_SERVICE_URL, NODE_ENV, users, issued>>

\* POST /teacher/attendance
markAttendance(user, body, dbFail) ==
    /\ UNCHANGED OutsideAttendance
    /\ IF body.date = 0 \/ ~body.isArray
       THEN /\ Marked(user, body, 400, "INVALID_INPUT", NoSummary)
            /\ UNCHANGED attendance
       ELSE IF body.date > Today
       THEN /\ Marked(user, body, 400, "FUTURE_DATE", NoSummary)
            /\ UNCHANGED attendance
       ELSE IF dbFail = 1
       THEN /\ Marked(user, body, 500, "DB_ERROR", NoSummary)
            /\ UNCHANGED attendance
       ELSE LET teacher == users[user.id]
                done == MarkEach(attendance, user.id, teacher, body, 1, dbFail)
            IN  /\ attendance' = done.rows
                /\ IF done.code = "OK"
                   THEN Marked(user, body, 200, "OK",
                               [total |-> Len(body.attendance),
                                present |-> CountStatus(body.attendance, "present"),
                                absent |-> CountStatus(body.attendance, "absent"),
                                date |-> body.date])
                   ELSE Marked(user, body, IF done.code = "DB_ERROR" THEN 500 ELSE 400,
                               done.code, NoSummary)

NextAttendance ==
    \E user \in AttendanceCallers, body \in AttendanceBodies, dbFail \in FailPoints(3) :
        markAttendance(user, body, dbFail)

Attendance == Init /\ [][NextAttendance]_vars

\* some record of the request carries a status other than 'present' and 'absent'
HasInvalidStatus(body) ==
    \E i \in 1 .. Len(body.attendance) :
        body.attendance[i].status \notin {"present", "absent"}

\* the status the request submits last for the student
LastStatus(list, studentId) ==
    LET at == {i \in 1 .. Len(list) : list[i].studentId = studentId}
    IN  list[CHOOSE i \in at : \A j \in at : j <= i].status

\* a request with a record of another status, past the checks of the body and
\* with the database answering, is refused with INVALID_STATUS
InvalidStatusIsRefused ==
    [][ (/\ last'.op = "markAttendance"
         /\ HasInvalidStatus(last'.body)
         /\ last'.code \notin {"INVALID_INPUT", "FUTURE_DATE", "DB_ERROR"})
            => last'.status = 400 /\ last'.code = "INVALID_STATUS" ]_vars

\* after a success, each (student, date) of the request has exactly one row,
\* with the status the request submitted last for that student
OneRowPerStudentAndDate ==
    [][ (last'.op = "markAttendance" /\ last'.status = 200)
            => \A i \in 1 .. Len(last'.body.attendance) :
                  LET studentId == last'.body.attendance[i].studentId
                      found == AttendanceOf(attendance', studentId, last'.body.date)
                  IN  /\ Cardinality(found) = 1
                      /\ \A r \in found :
                            r.status = LastStatus(last'.body.attendance, studentId) ]_vars

\* C30: a request refused with INVALID_STATUS inserts and updates no attendance
\* row; a request with a record of a status other than 'present' and 'absent' is
\* refused with INVALID_STATUS; after a success each (student, date) of the
\* request has exactly one row, with the status submitted last
MarkAttendanceAllOrNothing ==
    [][ /\ (/\ last'.op = "markAttendance"
            /\ HasInvalidStatus(last'.body)
            /\ last'.code \notin {"INVALID_INPUT", "FUTURE_DATE", "DB_ERROR"})
               => last'.status = 400 /\ last'.code = "INVALID_STATUS"
        /\ (last'.op = "markAttendance" /\ last'.code = "INVALID_STATUS")
               => attendance' = attendance
        /\ (last'.op = "markAttendance" /\ last'.status = 200)
               => \A i \in 1 .. Len(last'.body.attendance) :
                     LET studentId == last'.body.attendance[i].studentId
                         found == AttendanceOf(attendance', studentId, last'.body.date)
                     IN  /\ Cardinality(found) = 1
                         /\ \A r \in found :
                               r.status = LastStatus(last'.body.attendance, studentId)
      ]_vars

====
